---- MODULE Spec2Model ----
(***************************************************************************)
(* Spider Solitaire rules engine (src/src/gameLogic.ts, types in           *)
(* src/unnamed/part_000) as a state machine.  The engine's functions are   *)
(* pure; they are operators here.  The consumer (src/src/App.tsx) holds    *)
(* the current GameState and replaces it by the value an accepted call     *)
(* returns.  Arrays are 0-based in the source and sequences 1-based here:  *)
(* At(s, i) reads s[i] of the source.                                      *)
(***************************************************************************)
EXTENDS Integers, Sequences, FiniteSets, TLC

VARIABLES
    gameState,  \* the GameState the consumer holds (App.tsx gameState)
    pre,        \* the GameState handed to the last engine call
    lastCall,   \* which engine function was called last, and how it returned
    pin,        \* inputs of the pure-function checks
    pout        \* result of the last pure-function application

vars == <<gameState, pre, lastCall, pin, pout>>

\* ---------------------------------------------------------------- bounds

\* accepted moves and deals explored per game (state.moves is unbounded)
MaxOps == 7

\* longest column handed to isValidSequence and canMoveCards on their own
MaxPureLen == 2

\* columns that may hold a run when removeCompleteRuns is applied on its own
MaxRunCols == 2

\* longest array handed to shuffle on its own, with every sequence of draws
MaxShuffleLen == 4

\* shuffles of the whole pack tried by createGame on its own: one sequence
\* of draws for each a and b up to MaxSeed
MaxSeed == 2

\* ----------------------------------------------------------------- types

RANKS == <<"A", "2", "3", "4", "5", "6", "7", "8", "9", "10", "J", "Q", "K">>

RANK_VALUES ==
    ("A" :> 1) @@ ("2" :> 2) @@ ("3" :> 3) @@ ("4" :> 4) @@ ("5" :> 5) @@
    ("6" :> 6) @@ ("7" :> 7) @@ ("8" :> 8) @@ ("9" :> 9) @@ ("10" :> 10) @@
    ("J" :> 11) @@ ("Q" :> 12) @@ ("K" :> 13)

Difficulty == {1, 2, 4}

\* the value of a call that returns null
null == [null |-> TRUE]

\* ------------------------------------------------------- array helpers

At(s, i) == s[i + 1]

\* s.slice(from), 0-based
SliceFrom(s, from) == SubSeq(s, from + 1, Len(s))

\* the part of s that s.splice(from) leaves behind
Before(s, from) == SubSeq(s, 1, from)

\* the concatenation of the arrays of an array
RECURSIVE Flatten(_)
Flatten(seqs) == IF seqs = <<>> THEN <<>> ELSE Head(seqs) \o Flatten(Tail(seqs))

\* ------------------------------------------------------ deck and deal

createDeck(suits) ==
    [k \in 1..(Len(suits) * Len(RANKS)) |->
        LET suit == suits[((k - 1) \div Len(RANKS)) + 1]
            rank == RANKS[((k - 1) % Len(RANKS)) + 1]
        IN  [id |-> <<k - 1, suit, rank>>, suit |-> suit, rank |-> rank,
             faceUp |-> FALSE]]

\* faulty variant: the second half of the swap is forgotten
SwapOverwrite(arr, i, j) ==
    [arr EXCEPT ![i + 1] = arr[j + 1]]

Swap(arr, i, j) ==
    [arr EXCEPT ![i + 1] = arr[j + 1], ![j + 1] = arr[i + 1]]

\* the loop of shuffle from index i down to 1; random[i] is the value of
\* Math.floor(Math.random() * (i + 1)) drawn at index i
RECURSIVE shuffleLoop(_, _, _)
shuffleLoop(arr, i, random) ==
    IF i > 0 /\ Len(arr) > 0
    THEN shuffleLoop(Swap(arr, i, random[i]), i - 1, random)
    ELSE arr

\* the two arrays in scope when shuffle returns: array, the caller's, which
\* no statement writes to, and arr, the copy of line 20 the loop works on
shuffleRun(array, random) ==
    [array |-> array, arr |-> shuffleLoop(array, Len(array) - 1, random)]

shuffle(array, random) == shuffleRun(array, random).arr

\* faulty variant: four suits at every difficulty
suitsOfFour(difficulty) == <<"S", "H", "D", "C">>

suitsOf(difficulty) ==
    IF difficulty = 1 THEN <<"S">>
    ELSE IF difficulty = 2 THEN <<"S", "H">>
    ELSE <<"S", "H", "D", "C">>

\* faulty variant: every repeat keeps the ids createDeck gave
RECURSIVE buildPackSameIds(_, _, _, _)
buildPackSameIds(suits, i, repeats, allCards) ==
    IF i < repeats
    THEN buildPackSameIds(suits, i + 1, repeats, allCards \o createDeck(suits))
    ELSE allCards

\* the pack before the shuffle: repeats decks, ids re-derived per repeat
RECURSIVE buildPack(_, _, _, _)
buildPack(suits, i, repeats, allCards) ==
    IF i < repeats
    THEN LET deck == createDeck(suits)
             renamed == [idx \in 1..Len(deck) |->
                            [deck[idx] EXCEPT
                                !.id = <<i, idx - 1, deck[idx].suit, deck[idx].rank>>]]
         IN  buildPack(suits, i + 1, repeats, allCards \o renamed)
    ELSE allCards

pack(difficulty) ==
    LET suits == suitsOf(difficulty)
    IN  buildPack(suits, 0, 8 \div Len(suits), <<>>)

\* faulty variant: the first five columns get 6 cards
RECURSIVE dealColumnsFiveLong(_, _, _, _)
dealColumnsFiveLong(allCards, col, cardIdx, columns) ==
    IF col < 10
    THEN LET numCards == IF col < 5 THEN 6 ELSE 5
             column == [row \in 1..numCards |->
                           IF row - 1 = numCards - 1
                           THEN [At(allCards, cardIdx + row - 1) EXCEPT !.faceUp = TRUE]
                           ELSE At(allCards, cardIdx + row - 1)]
         IN  dealColumnsFiveLong(allCards, col + 1, cardIdx + numCards,
                                 Append(columns, column))
    ELSE <<columns, cardIdx>>

\* the deal loop over the columns: col < 4 gets 6 cards, the others 5; the
\* last card of each column is face up.  Returns <<columns, cardIdx>>.
RECURSIVE dealColumns(_, _, _, _)
dealColumns(allCards, col, cardIdx, columns) ==
    IF col < 10
    THEN LET numCards == IF col < 4 THEN 6 ELSE 5
             column == [row \in 1..numCards |->
                           IF row - 1 = numCards - 1
                           THEN [At(allCards, cardIdx + row - 1) EXCEPT !.faceUp = TRUE]
                           ELSE At(allCards, cardIdx + row - 1)]
         IN  dealColumns(allCards, col + 1, cardIdx + numCards,
                         Append(columns, column))
    ELSE <<columns, cardIdx>>

\* the while loop that cuts the remaining cards into piles of at most 10
RECURSIVE dealStock(_, _, _)
dealStock(allCards, cardIdx, stock) ==
    IF cardIdx < Len(allCards)
    THEN LET n == IF Len(allCards) - cardIdx < 10
                  THEN Len(allCards) - cardIdx ELSE 10
             pile == [i \in 1..n |-> At(allCards, cardIdx + i - 1)]
         IN  dealStock(allCards, cardIdx + n, Append(stock, pile))
    ELSE stock

createGame(difficulty, random) ==
    LET allCards == shuffle(pack(difficulty), random)
        dealt == dealColumns(allCards, 0, 0, <<>>)
    IN  [columns |-> dealt[1],
         stock |-> dealStock(allCards, dealt[2], <<>>),
         completedRuns |-> 0,
         score |-> 500,
         moves |-> 0,
         difficulty |-> difficulty]

\* ------------------------------------------------ sequences and moves

getRankValue(rank) == RANK_VALUES[rank]

RECURSIVE isValidSequenceLoop(_, _, _)
isValidSequenceLoop(cards, startIndex, i) ==
    IF i < Len(cards)
    THEN IF ~At(cards, i).faceUp THEN FALSE
         ELSE IF i > startIndex /\ At(cards, i).suit # At(cards, i - 1).suit THEN FALSE
         ELSE IF i > startIndex
                 /\ getRankValue(At(cards, i - 1).rank) - getRankValue(At(cards, i).rank) # 1
              THEN FALSE
         ELSE isValidSequenceLoop(cards, startIndex, i + 1)
    ELSE TRUE

\* faulty variant: the scan starts one card too late
isValidSequenceSkipFirst(cards, startIndex) ==
    isValidSequenceLoop(cards, startIndex, startIndex + 1)

isValidSequence(cards, startIndex) ==
    isValidSequenceLoop(cards, startIndex, startIndex)

\* faulty variant: the target's top card must also match the suit
canMoveCardsSameSuit(sourceCol, startIndex, targetCol) ==
    IF startIndex < 0 \/ startIndex >= Len(sourceCol) THEN FALSE
    ELSE IF ~isValidSequence(sourceCol, startIndex) THEN FALSE
    ELSE IF Len(targetCol) = 0 THEN TRUE
    ELSE LET targetTopCard == At(targetCol, Len(targetCol) - 1)
             movingBottomCard == At(sourceCol, startIndex)
         IN  IF ~targetTopCard.faceUp THEN FALSE
             ELSE /\ targetTopCard.suit = movingBottomCard.suit
                  /\ getRankValue(targetTopCard.rank)
                        - getRankValue(movingBottomCard.rank) = 1

canMoveCards(sourceCol, startIndex, targetCol) ==
    IF startIndex < 0 \/ startIndex >= Len(sourceCol) THEN FALSE
    ELSE IF ~isValidSequence(sourceCol, startIndex) THEN FALSE
    ELSE IF Len(targetCol) = 0 THEN TRUE
    ELSE LET targetTopCard == At(targetCol, Len(targetCol) - 1)
             movingBottomCard == At(sourceCol, startIndex)
         IN  IF ~targetTopCard.faceUp THEN FALSE
             ELSE getRankValue(targetTopCard.rank)
                     - getRankValue(movingBottomCard.rank) = 1

\* ------------------------------------------------------ complete runs

RECURSIVE sameSuitLoop(_, _, _)
sameSuitLoop(column, suit, i) ==
    IF i < Len(column)
    THEN IF At(column, i).suit # suit THEN FALSE
         ELSE sameSuitLoop(column, suit, i + 1)
    ELSE TRUE

notFound == [found |-> FALSE, startIndex |-> -1]

\* faulty variant: only the two ends and the suits of the block are looked at
checkCompleteRunEndsOnly(column) ==
    IF Len(column) < 13 THEN notFound
    ELSE LET startIndex == Len(column) - 13
             bottomCard == At(column, Len(column) - 1)
             topCard == At(column, startIndex)
         IN  IF getRankValue(bottomCard.rank) # 1 THEN notFound
             ELSE IF getRankValue(topCard.rank) # 13 THEN notFound
             ELSE IF ~sameSuitLoop(column, bottomCard.suit, startIndex) THEN notFound
             ELSE [found |-> TRUE, startIndex |-> startIndex]

checkCompleteRun(column) ==
    IF Len(column) < 13 THEN notFound
    ELSE LET startIndex == Len(column) - 13
             bottomCard == At(column, Len(column) - 1)
             topCard == At(column, startIndex)
         IN  IF getRankValue(bottomCard.rank) # 1 THEN notFound
             ELSE IF getRankValue(topCard.rank) # 13 THEN notFound
             ELSE IF ~isValidSequence(column, startIndex) THEN notFound
             ELSE IF ~sameSuitLoop(column, bottomCard.suit, startIndex) THEN notFound
             ELSE [found |-> TRUE, startIndex |-> startIndex]

\* faulty variant: the new top card stays as it is
flipTopNever(column) == column

\* faulty variant: the new top card is turned over, whichever side is up
flipTopTurnsOver(column) ==
    IF Len(column) > 0
    THEN LET topCard == At(column, Len(column) - 1)
         IN  [column EXCEPT ![Len(column)] = [topCard EXCEPT !.faceUp = ~topCard.faceUp]]
    ELSE column

\* the new top card of a column, turned face up when it is face down
flipTop(column) ==
    IF Len(column) > 0
    THEN LET topCard == At(column, Len(column) - 1)
         IN  IF ~topCard.faceUp
             THEN [column EXCEPT ![Len(column)] = [topCard EXCEPT !.faceUp = TRUE]]
             ELSE column
    ELSE column

\* faulty variant: a run counts twice
RECURSIVE removeLoopCountsTwice(_, _)
removeLoopCountsTwice(acc, colIdx) ==
    IF colIdx < Len(acc.columns)
    THEN LET result == checkCompleteRun(At(acc.columns, colIdx))
         IN  IF result.found
             THEN removeLoopCountsTwice(
                    [columns |-> [acc.columns EXCEPT ![colIdx + 1] =
                                    flipTop(Before(At(acc.columns, colIdx),
                                                   result.startIndex))],
                     completedRuns |-> acc.completedRuns + 2,
                     score |-> acc.score + 100],
                    colIdx + 1)
             ELSE removeLoopCountsTwice(acc, colIdx + 1)
    ELSE acc

\* faulty variant: a run is worth 50 points
RECURSIVE removeLoopHalfScore(_, _)
removeLoopHalfScore(acc, colIdx) ==
    IF colIdx < Len(acc.columns)
    THEN LET result == checkCompleteRun(At(acc.columns, colIdx))
         IN  IF result.found
             THEN removeLoopHalfScore(
                    [columns |-> [acc.columns EXCEPT ![colIdx + 1] =
                                    flipTop(Before(At(acc.columns, colIdx),
                                                   result.startIndex))],
                     completedRuns |-> acc.completedRuns + 1,
                     score |-> acc.score + 50],
                    colIdx + 1)
             ELSE removeLoopHalfScore(acc, colIdx + 1)
    ELSE acc

\* faulty variant: the scan stops at the first run it removes
RECURSIVE removeLoopFirstOnly(_, _)
removeLoopFirstOnly(acc, colIdx) ==
    IF colIdx < Len(acc.columns)
    THEN LET result == checkCompleteRun(At(acc.columns, colIdx))
         IN  IF result.found
             THEN [columns |-> [acc.columns EXCEPT ![colIdx + 1] =
                                  flipTop(Before(At(acc.columns, colIdx),
                                                 result.startIndex))],
                   completedRuns |-> acc.completedRuns + 1,
                   score |-> acc.score + 100]
             ELSE removeLoopFirstOnly(acc, colIdx + 1)
    ELSE acc

\* the scan of removeCompleteRuns from column colIdx on; acc carries
\* newColumns, completedRuns and score
RECURSIVE removeLoop(_, _)
removeLoop(acc, colIdx) ==
    IF colIdx < Len(acc.columns)
    THEN LET result == checkCompleteRun(At(acc.columns, colIdx))
         IN  IF result.found
             THEN removeLoop(
                    [columns |-> [acc.columns EXCEPT ![colIdx + 1] =
                                    flipTop(Before(At(acc.columns, colIdx),
                                                   result.startIndex))],
                     completedRuns |-> acc.completedRuns + 1,
                     score |-> acc.score + 100],
                    colIdx + 1)
             ELSE removeLoop(acc, colIdx + 1)
    ELSE acc

removeCompleteRuns(state) ==
    LET acc == removeLoop([columns |-> state.columns,
                           completedRuns |-> state.completedRuns,
                           score |-> state.score], 0)
    IN  [state EXCEPT !.columns = acc.columns,
                      !.completedRuns = acc.completedRuns,
                      !.score = acc.score]

\* ------------------------------------------------------ moves and deals

\* faulty variant: the cards moved go under the cards of the target column
moveCardsBeforeRunsUnder(state, sourceColIdx, startIndex, targetColIdx) ==
    LET source == At(state.columns, sourceColIdx)
        movingCards == SliceFrom(source, startIndex)
        newColumns ==
            [state.columns EXCEPT
                ![sourceColIdx + 1] = flipTop(Before(source, startIndex)),
                ![targetColIdx + 1] = movingCards \o At(state.columns, targetColIdx)]
    IN  [state EXCEPT !.columns = newColumns,
                      !.moves = state.moves + 1,
                      !.score = state.score - 1]

\* faulty variant: the move costs no point
moveCardsBeforeRunsFree(state, sourceColIdx, startIndex, targetColIdx) ==
    LET source == At(state.columns, sourceColIdx)
        movingCards == SliceFrom(source, startIndex)
        newColumns ==
            [state.columns EXCEPT
                ![sourceColIdx + 1] = flipTop(Before(source, startIndex)),
                ![targetColIdx + 1] = At(state.columns, targetColIdx) \o movingCards]
    IN  [state EXCEPT !.columns = newColumns,
                      !.moves = state.moves + 1]

\* the state moveCards builds before it looks for complete runs
moveCardsBeforeRuns(state, sourceColIdx, startIndex, targetColIdx) ==
    LET source == At(state.columns, sourceColIdx)
        movingCards == SliceFrom(source, startIndex)
        newColumns ==
            [state.columns EXCEPT
                ![sourceColIdx + 1] = flipTop(Before(source, startIndex)),
                ![targetColIdx + 1] = At(state.columns, targetColIdx) \o movingCards]
    IN  [state EXCEPT !.columns = newColumns,
                      !.moves = state.moves + 1,
                      !.score = state.score - 1]

\* faulty variant: a sequence is refused on a top card of another suit
moveCardsStrictSuit(state, sourceColIdx, startIndex, targetColIdx) ==
    IF sourceColIdx = targetColIdx THEN state
    ELSE IF ~canMoveCardsSameSuit(At(state.columns, sourceColIdx), startIndex,
                                  At(state.columns, targetColIdx))
         THEN state
    ELSE removeCompleteRuns(
            moveCardsBeforeRuns(state, sourceColIdx, startIndex, targetColIdx))

\* faulty variant: the result is returned without looking for complete runs
moveCardsWithoutRuns(state, sourceColIdx, startIndex, targetColIdx) ==
    IF sourceColIdx = targetColIdx THEN state
    ELSE IF ~canMoveCards(At(state.columns, sourceColIdx), startIndex,
                          At(state.columns, targetColIdx))
         THEN state
    ELSE moveCardsBeforeRuns(state, sourceColIdx, startIndex, targetColIdx)

\* moveCards takes one of its two early returns and hands back the very
\* state it was given (the consumer tests newState !== gs)
moveCardsReturnsInput(state, sourceColIdx, startIndex, targetColIdx) ==
    IF sourceColIdx = targetColIdx THEN TRUE
    ELSE ~canMoveCards(At(state.columns, sourceColIdx), startIndex,
                       At(state.columns, targetColIdx))

moveCards(state, sourceColIdx, startIndex, targetColIdx) ==
    IF sourceColIdx = targetColIdx THEN state
    ELSE IF ~canMoveCards(At(state.columns, sourceColIdx), startIndex,
                          At(state.columns, targetColIdx))
         THEN state
    ELSE removeCompleteRuns(
            moveCardsBeforeRuns(state, sourceColIdx, startIndex, targetColIdx))

\* the outcome of a call that ends in an uncaught TypeError
TypeError == [error |-> "TypeError"]

\* moveCards for any integer arguments.  state.columns[idx] is undefined for
\* idx outside the array; canMoveCards then returns false at line 112 when
\* startIndex < 0 and otherwise reads sourceCol.length (line 112) or
\* targetCol.length (line 118) of undefined, which throws.
moveCardsAnyIndex(state, sourceColIdx, startIndex, targetColIdx) ==
    LET sourceDefined == sourceColIdx \in 0..(Len(state.columns) - 1)
        targetDefined == targetColIdx \in 0..(Len(state.columns) - 1)
    IN  IF sourceColIdx = targetColIdx THEN state
        ELSE IF startIndex < 0 THEN state
        ELSE IF ~sourceDefined THEN TypeError
        ELSE IF startIndex >= Len(At(state.columns, sourceColIdx)) THEN state
        ELSE IF ~isValidSequence(At(state.columns, sourceColIdx), startIndex) THEN state
        ELSE IF ~targetDefined THEN TypeError
        ELSE moveCards(state, sourceColIdx, startIndex, targetColIdx)

hasEmptyColumn(state) ==
    \E idx \in 1..Len(state.columns) : Len(state.columns[idx]) = 0

\* faulty variant: the dealt cards stay face down
dealtColumnsFaceDown(state, dealPile) ==
    [idx \in 1..Len(state.columns) |->
        IF idx - 1 < Len(dealPile)
        THEN Append(state.columns[idx], At(dealPile, idx - 1))
        ELSE state.columns[idx]]

\* the columns after a deal of dealPile
dealtColumns(state, dealPile) ==
    [idx \in 1..Len(state.columns) |->
        IF idx - 1 < Len(dealPile)
        THEN Append(state.columns[idx],
                    [At(dealPile, idx - 1) EXCEPT !.faceUp = TRUE])
        ELSE state.columns[idx]]

\* faulty variant: a deal takes two piles off the stock
dealBeforeRunsTwoPiles(state) ==
    [state EXCEPT
        !.columns = dealtColumns(state, At(state.stock, Len(state.stock) - 1)),
        !.stock = SubSeq(state.stock, 1, Len(state.stock) - 2),
        !.moves = state.moves + 1]

\* faulty variant: the dealt pile stays in the stock
dealBeforeRunsKeepStock(state) ==
    [state EXCEPT
        !.columns = dealtColumns(state, At(state.stock, Len(state.stock) - 1)),
        !.moves = state.moves + 1]

\* faulty variant: the first pile is dealt instead of the last
dealBeforeRunsFirstPile(state) ==
    [state EXCEPT !.columns = dealtColumns(state, At(state.stock, 0)),
                  !.stock = SliceFrom(state.stock, 1),
                  !.moves = state.moves + 1]

\* faulty variant: a deal costs a point like a move
dealBeforeRunsCharged(state) ==
    [state EXCEPT
        !.columns = dealtColumns(state, At(state.stock, Len(state.stock) - 1)),
        !.stock = Before(state.stock, Len(state.stock) - 1),
        !.moves = state.moves + 1,
        !.score = state.score - 1]

\* faulty variant: the dealt pile is emptied but stays in the stock
dealBeforeRunsEmptyPile(state) ==
    [state EXCEPT
        !.columns = dealtColumns(state, At(state.stock, Len(state.stock) - 1)),
        !.stock = [state.stock EXCEPT ![Len(state.stock)] = <<>>],
        !.moves = state.moves + 1]

\* the state dealFromStock builds before it looks for complete runs
dealBeforeRuns(state) ==
    LET newStock == Before(state.stock, Len(state.stock) - 1)
        dealPile == At(state.stock, Len(state.stock) - 1)
        newColumns == dealtColumns(state, dealPile)
    IN  [state EXCEPT !.columns = newColumns,
                      !.stock = newStock,
                      !.moves = state.moves + 1]

\* faulty variant: cards are dealt although a column is empty
dealFromStockOntoEmpty(state) ==
    IF Len(state.stock) = 0 THEN null
    ELSE removeCompleteRuns(dealBeforeRuns(state))

dealFromStock(state) ==
    IF Len(state.stock) = 0 THEN null
    ELSE IF hasEmptyColumn(state) THEN null
    ELSE removeCompleteRuns(dealBeforeRuns(state))

\* faulty variant: the game counts as won one run early
isGameWonEarly(state) == state.completedRuns >= 7

isGameWon(state) == state.completedRuns = 8

\* ------------------------------------------- the engine on objects
\* The same three functions with the objects they work on: every card, array
\* and state is an object at an address of the heap (a sequence of objects,
\* the address is the index), arrays hold addresses, and each statement
\* either allocates an object or writes to one.  A call returns the heap it
\* leaves and the address (ret) of the state it returns.

\* the address that stands for null
nullRef == 0

Alloc(h, obj) == [heap |-> Append(h, obj), ret |-> Len(h) + 1]

ArrayObject(items) == [kind |-> "array", items |-> items]

\* offset of the cards of seqs[c] among the cards of seqs
Offset(seqs, c) == Len(Flatten(SubSeq(seqs, 1, c - 1)))

\* the caller's state as objects: the cards first, then the column arrays,
\* the piles, the columns array, the stock array and the state object
LoadState(state) ==
    LET colCards == Flatten(state.columns)
        stockCards == Flatten(state.stock)
        n == Len(colCards) + Len(stockCards)
        nc == Len(state.columns)
        ns == Len(state.stock)
        cardObject(card) == [kind |-> "card", id |-> card.id, suit |-> card.suit,
                             rank |-> card.rank, faceUp |-> card.faceUp]
        cards == [k \in 1..n |->
                    IF k <= Len(colCards) THEN cardObject(colCards[k])
                    ELSE cardObject(stockCards[k - Len(colCards)])]
        cols == [c \in 1..nc |->
                    ArrayObject([i \in 1..Len(state.columns[c]) |->
                                    Offset(state.columns, c) + i])]
        piles == [p \in 1..ns |->
                    ArrayObject([i \in 1..Len(state.stock[p]) |->
                                    Len(colCards) + Offset(state.stock, p) + i])]
        top == <<ArrayObject([c \in 1..nc |-> n + c]),
                 ArrayObject([p \in 1..ns |-> n + nc + p]),
                 [kind |-> "state", columns |-> n + nc + ns + 1,
                  stock |-> n + nc + ns + 2,
                  completedRuns |-> state.completedRuns, score |-> state.score,
                  moves |-> state.moves, difficulty |-> state.difficulty]>>
    IN  [heap |-> cards \o cols \o piles \o top, ret |-> n + nc + ns + 3]

\* what an array of cards, an array of such arrays and a state read as
ColumnValue(h, a) ==
    [k \in 1..Len(h[a].items) |->
        LET card == h[h[a].items[k]]
        IN  [id |-> card.id, suit |-> card.suit, rank |-> card.rank,
             faceUp |-> card.faceUp]]

ColumnsValue(h, a) == [k \in 1..Len(h[a].items) |-> ColumnValue(h, h[a].items[k])]

StateAt(h, s) ==
    [columns |-> ColumnsValue(h, h[s].columns),
     stock |-> ColumnsValue(h, h[s].stock),
     completedRuns |-> h[s].completedRuns,
     score |-> h[s].score,
     moves |-> h[s].moves,
     difficulty |-> h[s].difficulty]

\* [...arr]
CopyArray(h, a) == Alloc(h, ArrayObject(h[a].items))

\* outer.map(col => [...col]): a new array of new arrays of the same cards
RECURSIVE MapCopyLoop(_, _, _, _)
MapCopyLoop(h, outer, k, acc) ==
    IF k <= Len(h[outer].items)
    THEN LET copy == CopyArray(h, h[outer].items[k])
         IN  MapCopyLoop(copy.heap, outer, k + 1, Append(acc, copy.ret))
    ELSE Alloc(h, ArrayObject(acc))

MapCopy(h, outer) == MapCopyLoop(h, outer, 1, <<>>)

\* faulty variant: the card is turned over where it lies
FlipTopInPlace(h, col) ==
    LET items == h[col].items
    IN  IF Len(items) > 0
        THEN LET topCard == items[Len(items)]
             IN  IF ~h[topCard].faceUp
                 THEN [h EXCEPT ![topCard].faceUp = TRUE]
                 ELSE h
        ELSE h

\* lines 169-174 and 202-207 on the array col: a face-down top card is
\* replaced by a new card { ...topCard, faceUp: true }
FlipTopOnHeap(h, col) ==
    LET items == h[col].items
    IN  IF Len(items) > 0
        THEN LET topCard == items[Len(items)]
             IN  IF ~h[topCard].faceUp
                 THEN LET card == Alloc(h, [h[topCard] EXCEPT !.faceUp = TRUE])
                      IN  [card.heap EXCEPT
                             ![col].items = [items EXCEPT ![Len(items)] = card.ret]]
                 ELSE h
        ELSE h

\* the loop of removeCompleteRuns over newColumns from colIdx on
RECURSIVE RemoveLoopOnHeap(_, _, _)
RemoveLoopOnHeap(acc, newColumns, colIdx) ==
    IF colIdx < Len(acc.heap[newColumns].items)
    THEN LET col == At(acc.heap[newColumns].items, colIdx)
             result == checkCompleteRun(ColumnValue(acc.heap, col))
         IN  IF result.found
             THEN LET spliced ==
                        [acc.heap EXCEPT
                            ![col].items = Before(acc.heap[col].items, result.startIndex)]
                  IN  RemoveLoopOnHeap(
                        [heap |-> FlipTopOnHeap(spliced, col),
                         completedRuns |-> acc.completedRuns + 1,
                         score |-> acc.score + 100],
                        newColumns, colIdx + 1)
             ELSE RemoveLoopOnHeap(acc, newColumns, colIdx + 1)
    ELSE acc

removeCompleteRunsOnHeap(h, s) ==
    LET copy == MapCopy(h, h[s].columns)
        done == RemoveLoopOnHeap([heap |-> copy.heap,
                                  completedRuns |-> h[s].completedRuns,
                                  score |-> h[s].score], copy.ret, 0)
    IN  Alloc(done.heap, [done.heap[s] EXCEPT !.columns = copy.ret,
                                              !.completedRuns = done.completedRuns,
                                              !.score = done.score])

moveCardsOnHeap(h, s, sourceColIdx, startIndex, targetColIdx) ==
    IF sourceColIdx = targetColIdx THEN [heap |-> h, ret |-> s]
    ELSE IF ~canMoveCards(
                ColumnValue(h, At(h[h[s].columns].items, sourceColIdx)), startIndex,
                ColumnValue(h, At(h[h[s].columns].items, targetColIdx)))
         THEN [heap |-> h, ret |-> s]
    ELSE LET copy == MapCopy(h, h[s].columns)
             newColumns == copy.ret
             source == At(copy.heap[newColumns].items, sourceColIdx)
             \* movingCards = newColumns[sourceColIdx].splice(startIndex)
             movingCards ==
                 Alloc([copy.heap EXCEPT
                           ![source].items = Before(copy.heap[source].items, startIndex)],
                       ArrayObject(SliceFrom(copy.heap[source].items, startIndex)))
             target == At(movingCards.heap[newColumns].items, targetColIdx)
             \* newColumns[targetColIdx] = [...newColumns[targetColIdx], ...movingCards]
             joined ==
                 Alloc(movingCards.heap,
                       ArrayObject(movingCards.heap[target].items
                                     \o movingCards.heap[movingCards.ret].items))
             stored ==
                 [joined.heap EXCEPT
                     ![newColumns].items =
                         [joined.heap[newColumns].items EXCEPT
                             ![targetColIdx + 1] = joined.ret]]
             flipped == FlipTopOnHeap(stored, source)
             newState ==
                 Alloc(flipped, [flipped[s] EXCEPT !.columns = newColumns,
                                                   !.moves = flipped[s].moves + 1,
                                                   !.score = flipped[s].score - 1])
         IN  removeCompleteRunsOnHeap(newState.heap, newState.ret)

\* the map of dealFromStock over the columns from index k on: a column that
\* gets a card becomes [...col, { ...dealPile[idx], faceUp: true }]
RECURSIVE DealMapLoop(_, _, _, _, _)
DealMapLoop(h, outer, dealPile, k, acc) ==
    IF k <= Len(h[outer].items)
    THEN IF k - 1 < Len(h[dealPile].items)
         THEN LET card == Alloc(h, [h[h[dealPile].items[k]] EXCEPT !.faceUp = TRUE])
                  col == Alloc(card.heap,
                               ArrayObject(Append(h[h[outer].items[k]].items, card.ret)))
              IN  DealMapLoop(col.heap, outer, dealPile, k + 1, Append(acc, col.ret))
         ELSE LET col == CopyArray(h, h[outer].items[k])
              IN  DealMapLoop(col.heap, outer, dealPile, k + 1, Append(acc, col.ret))
    ELSE Alloc(h, ArrayObject(acc))

dealFromStockOnHeap(h, s) ==
    IF Len(h[h[s].stock].items) = 0 THEN [heap |-> h, ret |-> nullRef]
    ELSE IF \E k \in 1..Len(h[h[s].columns].items) :
                Len(h[h[h[s].columns].items[k]].items) = 0
         THEN [heap |-> h, ret |-> nullRef]
    ELSE LET newStock == CopyArray(h, h[s].stock)
             items == newStock.heap[newStock.ret].items
             dealPile == items[Len(items)]
             \* newStock.pop()
             popped == [newStock.heap EXCEPT
                           ![newStock.ret].items = Before(items, Len(items) - 1)]
             newColumns == DealMapLoop(popped, h[s].columns, dealPile, 1, <<>>)
             newState ==
                 Alloc(newColumns.heap,
                       [newColumns.heap[s] EXCEPT !.columns = newColumns.ret,
                                                  !.stock = newStock.ret,
                                                  !.moves = newColumns.heap[s].moves + 1])
         IN  removeCompleteRunsOnHeap(newState.heap, newState.ret)

\* ------------------------------------------------------- the game played

\* Outcomes of Math.floor(Math.random() * (i + 1)) for i = 1..103, one
\* sequence per game explored.  Every sequence with random[i] in 0..i is a
\* possible outcome; these three lead to the cases of interest early.
\* difficulty 2: spades K..2 come together in column 0 after three deals and
\* two moves; the ace follows by a move or by the fourth deal.  The other
\* columns show cards that few moves can use, which keeps the game small.
randomR ==
    <<0, 1, 0, 4, 1, 1, 7, 6, 7, 5, 8, 11, 2, 5, 5, 0, 4, 10, 15, 11, 3, 18, 15, 16, 20, 3,
      5, 27, 26, 24, 11, 19, 1, 9, 6, 7, 10, 36, 25, 6, 27, 19, 2, 16, 16, 16, 32, 28, 7, 49, 37, 23,
      23, 23, 49, 31, 29, 10, 18, 44, 20, 3, 5, 26, 24, 50, 1, 55, 11, 20, 46, 72, 42, 9, 31, 1, 40, 66,
      58, 27, 53, 79, 25, 36, 6, 80, 19, 45, 71, 16, 32, 58, 84, 37, 7, 3, 16, 42, 68, 94, 29, 55, 81>>

\* difficulty 4: column 9 empties in five moves onto column 0
randomC ==
    <<0, 1, 1, 0, 4, 4, 5, 4, 3, 7, 2, 6, 9, 5, 8, 9, 10, 14, 17, 5, 19, 9, 15, 24, 13, 3,
      16, 13, 6, 29, 6, 19, 28, 1, 24, 18, 0, 23, 13, 36, 26, 4, 41, 43, 17, 7, 30, 27, 20, 8, 22, 10,
      24, 52, 23, 43, 36, 32, 39, 14, 43, 52, 45, 5, 57, 18, 59, 31, 7, 59, 33, 33, 58, 9, 61, 74, 35, 71,
      3, 55, 16, 68, 29, 6, 58, 19, 71, 32, 1, 53, 14, 66, 27, 0, 52, 13, 65, 26, 4, 56, 17, 69, 30>>

\* difficulty 1: column 9 empties in five moves onto column 0
randomE ==
    <<1, 2, 3, 4, 4, 0, 7, 8, 9, 5, 2, 4, 5, 3, 4, 0, 15, 11, 0, 11, 6, 3, 19, 1, 18, 6,
      19, 27, 1, 7, 22, 1, 23, 14, 22, 18, 10, 16, 18, 22, 27, 30, 16, 43, 7, 20, 42, 11, 7, 8, 9, 10,
      11, 23, 36, 49, 4, 35, 0, 13, 26, 4, 17, 5, 18, 31, 44, 57, 20, 33, 46, 59, 72, 22, 35, 48, 61, 74,
      3, 16, 29, 42, 55, 6, 19, 32, 45, 58, 1, 14, 27, 40, 53, 39, 52, 65, 78, 91, 30, 43, 56, 69, 82>>


Shuffles == {<<2, randomR>>, <<4, randomC>>, <<1, randomE>>}

noPure == [fn |-> "none"]

ColIdx(state) == 0..(Len(state.columns) - 1)

\* start indices tried on a column: one below, all of its cards, one beyond
StartIdx(state, colIdx) == (-1)..Len(At(state.columns, colIdx))

Init ==
    /\ \E g \in Shuffles : gameState = createGame(g[1], g[2])
    /\ pre = gameState
    /\ lastCall = [op |-> "createGame", ret |-> "new"]
    /\ pin = noPure
    /\ pout = noPure

\* handleGlobalPointerUp / handleCardClick: the consumer calls moveCards and,
\* when the result is not the state it passed, keeps the result.
MoveCards(sourceColIdx, startIndex, targetColIdx) ==
    /\ gameState.moves < MaxOps
    /\ ~moveCardsReturnsInput(gameState, sourceColIdx, startIndex, targetColIdx)
    /\ pre' = gameState
    /\ gameState' = moveCards(gameState, sourceColIdx, startIndex, targetColIdx)
    /\ lastCall' = [op |-> "moveCards", ret |-> "new"]
    /\ UNCHANGED <<pin, pout>>

\* The same call when moveCards returns the state it was passed (gameLogic.ts
\* lines 159 and 161): whatever the arguments, the consumer keeps its state.
MoveCardsRejected ==
    /\ gameState.moves < MaxOps
    /\ ~(\A sourceColIdx \in ColIdx(gameState), targetColIdx \in ColIdx(gameState) :
           \A startIndex \in StartIdx(gameState, sourceColIdx) :
              ~moveCardsReturnsInput(gameState, sourceColIdx, startIndex, targetColIdx))
    /\ pre' = gameState
    /\ gameState' = gameState
    /\ lastCall' = [op |-> "moveCards", ret |-> "same"]
    /\ UNCHANGED <<pin, pout>>

\* handleDeal: the consumer calls dealFromStock and keeps a non-null result
DealFromStock ==
    LET result == dealFromStock(gameState)
    IN  /\ gameState.moves < MaxOps
        /\ pre' = gameState
        /\ gameState' = IF result = null THEN gameState ELSE result
        /\ lastCall' = [op |-> "dealFromStock",
                        ret |-> IF result = null THEN "null" ELSE "new"]
        /\ UNCHANGED <<pin, pout>>

Next ==
    \/ \E sourceColIdx \in ColIdx(gameState), targetColIdx \in ColIdx(gameState) :
         \E startIndex \in StartIdx(gameState, sourceColIdx) :
            MoveCards(sourceColIdx, startIndex, targetColIdx)
    \/ MoveCardsRejected
    \/ DealFromStock

Spec == Init /\ [][Next]_vars

\* ------------------------------------------------- a game played to the end

\* difficulty 1: a deal that the line of play below wins
randomW ==
    <<0, 0, 1, 1, 3, 4, 5, 3, 4, 3, 10, 1, 11, 14, 9, 3, 16, 4, 4, 16, 21, 10, 17, 24, 5, 23,
      24, 18, 22, 27, 30, 5, 31, 31, 18, 24, 5, 29, 34, 37, 35, 35, 40, 40, 18, 27, 29, 47, 40, 42, 35, 31,
      42, 48, 37, 29, 42, 44, 43, 50, 61, 56, 63, 47, 55, 44, 60, 47, 69, 44, 68, 57, 70, 73, 71, 47, 53, 68,
      71, 74, 71, 73, 47, 73, 66, 79, 74, 81, 76, 60, 87, 81, 86, 71, 94, 73, 94, 84, 89, 86, 97, 86, 99>>

\* the calls the consumer makes in that game, in order, as <<sourceColIdx,
\* startIndex, targetColIdx>> of a moveCards call; Deal stands for a call of
\* dealFromStock
Deal == <<-1, -1, -1>>

WinLine ==
    <<<<9, 4, 0>>, <<7, 4, 0>>, <<9, 3, 0>>, <<3, 5, 0>>, <<0, 5, 9>>, <<9, 2, 3>>,
      <<-1, -1, -1>>, <<3, 4, 6>>, <<1, 6, 5>>, <<6, 5, 1>>, <<6, 4, 1>>, <<6, 3, 7>>,
      <<-1, -1, -1>>, <<6, 3, 9>>, <<-1, -1, -1>>, <<4, 7, 0>>, <<1, 17, 0>>, <<6, 3, 1>>,
      <<1, 4, 4>>, <<4, 6, 0>>, <<0, 5, 8>>, <<8, 7, 9>>, <<6, 2, 0>>, <<1, 3, 8>>,
      <<1, 2, 3>>, <<3, 5, 8>>, <<9, 5, 3>>, <<3, 4, 5>>, <<5, 8, 0>>, <<8, 6, 7>>,
      <<7, 7, 2>>, <<3, 3, 7>>, <<2, 8, 6>>, <<5, 7, 1>>, <<9, 3, 5>>, <<5, 6, 1>>,
      <<-1, -1, -1>>, <<5, 6, 9>>, <<1, 6, 9>>, <<2, 8, 9>>, <<2, 7, 9>>, <<7, 8, 9>>,
      <<7, 6, 0>>, <<9, 4, 7>>, <<0, 4, 5>>, <<5, 5, 4>>, <<6, 8, 0>>, <<-1, -1, -1>>,
      <<3, 4, 8>>, <<6, 8, 3>>, <<6, 1, 4>>, <<8, 6, 4>>, <<8, 5, 7>>, <<9, 4, 8>>,
      <<5, 5, 9>>, <<2, 7, 9>>, <<2, 6, 0>>, <<2, 5, 7>>, <<4, 5, 7>>, <<4, 4, 7>>,
      <<7, 11, 4>>, <<4, 3, 8>>, <<7, 9, 8>>, <<8, 3, 3>>, <<8, 2, 7>>, <<5, 4, 7>>,
      <<7, 4, 5>>, <<5, 3, 0>>, <<0, 5, 3>>, <<5, 2, 0>>, <<3, 2, 0>>, <<0, 3, 5>>,
      <<4, 2, 1>>, <<8, 1, 4>>, <<3, 1, 4>>, <<2, 4, 4>>, <<2, 3, 1>>, <<0, 2, 2>>,
      <<0, 1, 5>>, <<2, 2, 5>>, <<4, 1, 0>>, <<2, 1, 7>>, <<8, 0, 7>>, <<6, 0, 2>>,
      <<3, 0, 4>>, <<9, 3, 4>>, <<5, 1, 9>>, <<9, 2, 1>>, <<1, 8, 7>>, <<7, 2, 4>>,
      <<2, 0, 4>>, <<5, 0, 1>>, <<9, 1, 8>>, <<7, 1, 9>>, <<4, 0, 7>>, <<7, 0, 1>>,
      <<1, 6, 8>>, <<0, 0, 1>>, <<1, 1, 8>>, <<1, 0, 8>>, <<9, 0, 8>>>>

InitWin ==
    /\ gameState = createGame(1, randomW)
    /\ pre = gameState
    /\ lastCall = [op |-> "createGame", ret |-> "new"]
    /\ pin = noPure
    /\ pout = noPure

\* every accepted call adds 1 to moves, so moves is the position in the line
LineMove ==
    /\ gameState.moves < Len(WinLine)
    /\ WinLine[gameState.moves + 1] # Deal
    /\ LET a == WinLine[gameState.moves + 1]
       IN  /\ ~moveCardsReturnsInput(gameState, a[1], a[2], a[3])
           /\ pre' = gameState
           /\ gameState' = moveCards(gameState, a[1], a[2], a[3])
           /\ lastCall' = [op |-> "moveCards", ret |-> "new"]
    /\ UNCHANGED <<pin, pout>>

LineDeal ==
    /\ gameState.moves < Len(WinLine)
    /\ WinLine[gameState.moves + 1] = Deal
    /\ dealFromStock(gameState) # null
    /\ pre' = gameState
    /\ gameState' = dealFromStock(gameState)
    /\ lastCall' = [op |-> "dealFromStock", ret |-> "new"]
    /\ UNCHANGED <<pin, pout>>

\* a moveCards call the engine rejects, at any point of the game
LineMoveRejected ==
    /\ ~(\A sourceColIdx \in ColIdx(gameState), targetColIdx \in ColIdx(gameState) :
           \A startIndex \in StartIdx(gameState, sourceColIdx) :
              ~moveCardsReturnsInput(gameState, sourceColIdx, startIndex, targetColIdx))
    /\ pre' = gameState
    /\ gameState' = gameState
    /\ lastCall' = [op |-> "moveCards", ret |-> "same"]
    /\ UNCHANGED <<pin, pout>>

\* a dealFromStock call the engine refuses, at any point of the game
LineDealRefused ==
    /\ dealFromStock(gameState) = null
    /\ pre' = gameState
    /\ gameState' = gameState
    /\ lastCall' = [op |-> "dealFromStock", ret |-> "null"]
    /\ UNCHANGED <<pin, pout>>

NextWin ==
    \/ LineMove
    \/ LineDeal
    \/ LineMoveRejected
    \/ LineDealRefused

SpecWin == InitWin /\ [][NextWin]_vars

\* ------------------------------------- the pure functions on their own

\* isValidSequence, canMoveCards and removeCompleteRuns are exported and the
\* UI calls the first two directly (App.tsx lines 144, 176, 247): SpecPure
\* draws their arguments from bounded sets and applies them.

PureSuits == {"S", "H"}

PureRanks == {"A", "2", "3", "K"}

PureCards ==
    {[id |-> <<0, 0, suit, rank>>, suit |-> suit, rank |-> rank, faceUp |-> faceUp] :
        suit \in PureSuits, rank \in PureRanks, faceUp \in BOOLEAN}

PureColumns(n) == [1..n -> PureCards]

\* target columns: empty, one card, or a card on a buried one
PureTargets ==
    {<<>>} \cup {<<c>> : c \in PureCards}
           \cup {<<[id |-> <<1, 0, "S", "A">>, suit |-> "S", rank |-> "A",
                    faceUp |-> FALSE], c>> :
                    c \in {d \in PureCards : d.suit = "H" /\ d.rank = "3"}}

\* a face-up run K..A of one suit
runOf(suit) ==
    [k \in 1..13 |-> [id |-> <<0, 13 - k, suit, RANKS[14 - k]>>, suit |-> suit,
                      rank |-> RANKS[14 - k], faceUp |-> TRUE]]

buried(faceUp) == [id |-> <<1, 4, "H", "5">>, suit |-> "H", rank |-> "5", faceUp |-> faceUp]

\* what a column holds when removeCompleteRuns looks at it
RunColumns ==
    {<<>>,
     runOf("S"),
     runOf("H"),
     <<buried(FALSE)>> \o runOf("S"),
     <<buried(FALSE), buried(TRUE)>> \o runOf("H"),
     [runOf("S") EXCEPT ![5] = [@ EXCEPT !.suit = "H"]],
     [runOf("S") EXCEPT ![13] = buried(TRUE)],
     <<buried(FALSE)>> \o SubSeq(runOf("S"), 1, 12),
     <<buried(TRUE)>>}

PureStates ==
    {[columns |-> [c \in 1..10 |-> IF c = 1 THEN c1
                                   ELSE IF c = 10 /\ MaxRunCols >= 2 THEN c10
                                   ELSE IF c = 4 /\ MaxRunCols >= 3 THEN c4
                                   ELSE <<buried(TRUE)>>],
      stock |-> <<[i \in 1..10 |-> buried(FALSE)]>>,
      completedRuns |-> done,
      score |-> 497 + 100 * done,
      moves |-> 3,
      difficulty |-> 2] :
        c1 \in RunColumns, c10 \in RunColumns, c4 \in RunColumns, done \in {0, 5}}

\* any card of the two suits
AnyCards ==
    {[id |-> <<1, 0, suit, RANKS[r]>>, suit |-> suit, rank |-> RANKS[r],
      faceUp |-> faceUp] : suit \in PureSuits, r \in 1..13, faceUp \in BOOLEAN}

\* what lies under the last 13 cards of a column
RunPrefixes == {<<>>, <<buried(FALSE)>>, <<buried(TRUE), buried(FALSE)>>}

\* columns handed to checkCompleteRun: a run K..A with any one card of it
\* replaced by any card (the card itself included), on each prefix; a run
\* with a card on top of it; and columns of fewer than 13 cards
CheckColumns ==
    {p \o [runOf(suit) EXCEPT ![k] = card] :
        p \in RunPrefixes, suit \in PureSuits, k \in 1..13, card \in AnyCards}
    \cup {runOf(suit) \o <<card>> : suit \in PureSuits, card \in PureCards}
    \cup {SubSeq(runOf(suit), k, 13) : suit \in PureSuits, k \in 2..14}
    \cup {SubSeq(runOf(suit), 1, k) : suit \in PureSuits, k \in 1..12}

\* sequences of draws for a shuffle of the whole pack: the four games played
\* and a family that covers every index
RandomChoices ==
    {[i \in 1..103 |-> ((i \div (a + 2)) * (b + 3) + a * b) % (i + 1)] :
        a \in 0..MaxSeed, b \in 0..MaxSeed}
    \cup {randomR, randomC, randomE, randomW}

ShuffleItems == {"a", "b", "c"}

\* every sequence of draws for an array of n items: random[i] in 0..i
DrawsFor(n) ==
    {random \in [1..(n - 1) -> 0..(n - 1)] : \A i \in 1..(n - 1) : random[i] <= i}

\* one call of one of the functions, its arguments drawn from the sets above
InitPure ==
    /\ \/ \E n \in 0..MaxPureLen : \E c \in PureColumns(n) :
             \E i \in 0..(MaxPureLen + 1) :
                pin = [fn |-> "isValidSequence", cards |-> c, startIndex |-> i]
       \/ \E n \in 0..MaxPureLen : \E c \in PureColumns(n) :
             \E i \in (-1)..(MaxPureLen + 1) : \E t \in PureTargets :
                pin = [fn |-> "canMoveCards", sourceCol |-> c, startIndex |-> i,
                       targetCol |-> t]
       \/ \E s \in PureStates : pin = [fn |-> "removeCompleteRuns", state |-> s]
       \/ \E c \in CheckColumns : pin = [fn |-> "checkCompleteRun", column |-> c]
       \/ \E d \in Difficulty : \E random \in RandomChoices :
             pin = [fn |-> "createGame", difficulty |-> d, random |-> random]
       \/ \E n \in 0..MaxShuffleLen : \E array \in [1..n -> ShuffleItems] :
             \E random \in DrawsFor(n) :
                pin = [fn |-> "shuffle", array |-> array, random |-> random]
       \/ \E d \in Difficulty : \E random \in RandomChoices :
             pin = [fn |-> "shuffle", array |-> pack(d), random |-> random]
    /\ pout = noPure
    /\ gameState = noPure
    /\ pre = noPure
    /\ lastCall = [op |-> "pure", ret |-> "none"]

ApplyIsValidSequence ==
    /\ pin.fn = "isValidSequence"
    /\ pout = noPure
    /\ pout' = [fn |-> pin.fn, val |-> isValidSequence(pin.cards, pin.startIndex)]
    /\ UNCHANGED <<gameState, pre, lastCall, pin>>

ApplyCanMoveCards ==
    /\ pin.fn = "canMoveCards"
    /\ pout = noPure
    /\ pout' = [fn |-> pin.fn,
                val |-> canMoveCards(pin.sourceCol, pin.startIndex, pin.targetCol)]
    /\ UNCHANGED <<gameState, pre, lastCall, pin>>

ApplyRemoveCompleteRuns ==
    /\ pin.fn = "removeCompleteRuns"
    /\ pout = noPure
    /\ pout' = [fn |-> pin.fn, val |-> removeCompleteRuns(pin.state)]
    /\ UNCHANGED <<gameState, pre, lastCall, pin>>

ApplyCheckCompleteRun ==
    /\ pin.fn = "checkCompleteRun"
    /\ pout = noPure
    /\ pout' = [fn |-> pin.fn, val |-> checkCompleteRun(pin.column)]
    /\ UNCHANGED <<gameState, pre, lastCall, pin>>

ApplyCreateGame ==
    /\ pin.fn = "createGame"
    /\ pout = noPure
    /\ pout' = [fn |-> pin.fn, val |-> createGame(pin.difficulty, pin.random)]
    /\ UNCHANGED <<gameState, pre, lastCall, pin>>

\* val is the array shuffle returns, array the caller's array after the call
ApplyShuffle ==
    /\ pin.fn = "shuffle"
    /\ pout = noPure
    /\ LET run == shuffleRun(pin.array, pin.random)
       IN  pout' = [fn |-> pin.fn, val |-> run.arr, array |-> run.array]
    /\ UNCHANGED <<gameState, pre, lastCall, pin>>

NextPure ==
    \/ ApplyIsValidSequence
    \/ ApplyCanMoveCards
    \/ ApplyRemoveCompleteRuns
    \/ ApplyCheckCompleteRun
    \/ ApplyCreateGame
    \/ ApplyShuffle

SpecPure == InitPure /\ [][NextPure]_vars

\* ---------------------------------------------- vocabulary of the claims

RECURSIVE SumLen(_)
SumLen(seqs) == IF seqs = <<>> THEN 0 ELSE Len(Head(seqs)) + SumLen(Tail(seqs))

\* the cards of the columns and of the stock
CardsIn(state) == Flatten(state.columns) \o Flatten(state.stock)

ColumnCards(state) == SumLen(state.columns)

StockCards(state) == SumLen(state.stock)

TotalCards(state) ==
    ColumnCards(state) + StockCards(state) + 13 * state.completedRuns

\* the runs a call took off the columns, counted by the cards that left
\* the game between its input and its result
RunsRemoved(before, after) ==
    ((ColumnCards(before) + StockCards(before))
        - (ColumnCards(after) + StockCards(after))) \div 13

\* the last 13 cards of the column are face up, of one suit, K down to A
CompleteRunAtTop(column) ==
    /\ Len(column) >= 13
    /\ \A k \in 1..13 :
         LET card == column[Len(column) - 13 + k]
         IN  /\ card.faceUp
             /\ card.suit = column[Len(column)].suit
             /\ RANK_VALUES[card.rank] = 14 - k

FaceUp(card) == [card EXCEPT !.faceUp = TRUE]

Accepted(op) == lastCall = [op |-> op, ret |-> "new"]

AllMoveArgs(state) ==
    UNION {{<<s, i, t>> : i \in StartIdx(state, s), t \in ColIdx(state)} :
            s \in ColIdx(state)}

\* ------------------------------------------------------------------ C1

\* C1: in every state reachable from createGame by moveCards and
\* dealFromStock calls, accepted or rejected, the cards in the columns plus
\* the cards in the stock plus 13 per completed run are 104.
C1_CardCount == TotalCards(gameState) = 104

\* a run has been removed and the stock has been dealt from
C1_Witness ==
    /\ gameState.completedRuns >= 1
    /\ Len(gameState.stock) < 5
    /\ ColumnCards(gameState) + StockCards(gameState) = 91

\* ------------------------------------------------------------------ C2

MoveRejectedByRule(state, sourceColIdx, startIndex, targetColIdx) ==
    \/ sourceColIdx = targetColIdx
    \/ ~canMoveCards(At(state.columns, sourceColIdx), startIndex,
                     At(state.columns, targetColIdx))

\* C2: moveCards returns a state equal to its input exactly when the move
\* is rejected (source equals target, or canMoveCards rejects); every
\* accepted move returns a state that differs from its input.
C2_IdentityIffRejected ==
    \A a \in AllMoveArgs(gameState) :
        (moveCards(gameState, a[1], a[2], a[3]) = gameState)
            <=> MoveRejectedByRule(gameState, a[1], a[2], a[3])

\* a call has just been rejected in a state where other calls are accepted,
\* among them a move across suits
C2_Witness ==
    /\ lastCall = [op |-> "moveCards", ret |-> "same"]
    /\ \E a \in AllMoveArgs(gameState) :
          /\ ~MoveRejectedByRule(gameState, a[1], a[2], a[3])
          /\ At(At(gameState.columns, a[1]), a[2]).suit
                # gameState.columns[a[3] + 1][Len(gameState.columns[a[3] + 1])].suit
\* ------------------------------------------------------------------ C3

\* C3: canMoveCards(source, start, target) is true iff start is within
\* 0..len(source)-1, source[start..] is a valid sequence, and either target
\* is empty or its top card is face-up with rank value exactly one greater
\* than that of source[start]; the suit of the target's top card never
\* affects the result.
C3_CanMoveCards ==
    pout.fn = "canMoveCards" =>
        LET source == pin.sourceCol
            start == pin.startIndex
            target == pin.targetCol
            top == target[Len(target)]
        IN  /\ pout.val <=>
                 /\ start \in 0..(Len(source) - 1)
                 /\ isValidSequence(source, start)
                 /\ \/ Len(target) = 0
                    \/ /\ top.faceUp
                       /\ RANK_VALUES[top.rank] = RANK_VALUES[source[start + 1].rank] + 1
            /\ Len(target) > 0 =>
                 \A suit \in PureSuits :
                    pout.val = canMoveCards(source, start,
                                  [target EXCEPT ![Len(target)] = [top EXCEPT !.suit = suit]])

\* a two-card sequence was accepted onto a face-up card of the other suit
C3_Witness ==
    /\ pout.fn = "canMoveCards"
    /\ pout.val
    /\ Len(pin.sourceCol) - pin.startIndex = 2
    /\ Len(pin.targetCol) > 0
    /\ pin.targetCol[Len(pin.targetCol)].suit # pin.sourceCol[pin.startIndex + 1].suit

\* ------------------------------------------------------------------ C4

\* C4: for every column and every startIndex in 0..len(column),
\* isValidSequence is true iff every card from startIndex to the end is
\* face-up and every adjacent pair in that range has the same suit with the
\* rank value decreasing by exactly 1 toward the top.
C4_IsValidSequence ==
    (pout.fn = "isValidSequence" /\ pin.startIndex <= Len(pin.cards)) =>
        (pout.val <=>
            /\ \A i \in (pin.startIndex + 1)..Len(pin.cards) : pin.cards[i].faceUp
            /\ \A i \in (pin.startIndex + 2)..Len(pin.cards) :
                  /\ pin.cards[i].suit = pin.cards[i - 1].suit
                  /\ RANK_VALUES[pin.cards[i - 1].rank] - RANK_VALUES[pin.cards[i].rank] = 1)

\* a two-card range of one suit, both cards face up, ranks one apart, was
\* found valid
C4_Witness ==
    /\ pout.fn = "isValidSequence"
    /\ pout.val
    /\ Len(pin.cards) - pin.startIndex = 2
\* ------------------------------------------------------------------ C5

\* C5: after any accepted moveCards, moves is the input moves plus 1 and
\* score is the input score minus 1 plus 100 for each run removed in that
\* call.
C5_MoveCounters ==
    Accepted("moveCards") =>
        /\ gameState.moves = pre.moves + 1
        /\ gameState.score = pre.score - 1 + 100 * RunsRemoved(pre, gameState)

\* a move has completed a run: thirteen cards left and the score rose by 99
C5_Witness ==
    /\ Accepted("moveCards")
    /\ RunsRemoved(pre, gameState) = 1
    /\ gameState.score = pre.score + 99

\* ------------------------------------------------------------------ C6

DealBlocked(state) ==
    \/ Len(state.stock) = 0
    \/ \E c \in 1..Len(state.columns) : state.columns[c] = <<>>

\* C6: dealFromStock fails with a null result and no change to the state
\* whenever the stock is empty or at least one column is empty, and
\* succeeds in every other state.
C6_DealRejection ==
    /\ (dealFromStock(gameState) = null) <=> DealBlocked(gameState)
    /\ lastCall.op = "dealFromStock" =>
         IF DealBlocked(pre)
         THEN lastCall.ret = "null" /\ gameState = pre
         ELSE lastCall.ret = "new" /\ gameState # pre

\* a deal was refused because a column is empty although the stock is not
C6_Witness ==
    /\ lastCall = [op |-> "dealFromStock", ret |-> "null"]
    /\ Len(gameState.stock) > 0
    /\ \E c \in 1..10 : gameState.columns[c] = <<>>

\* ------------------------------------------------------------------ C7

\* column c of the input with card c of the dealt pile on top, face up
DealtOnto(state, c) ==
    Append(state.columns[c], FaceUp(state.stock[Len(state.stock)][c]))

\* the column without its top 13 cards, its new top card face up
WithoutRun(column) ==
    LET n == Len(column) - 13
    IN  [i \in 1..n |-> IF i = n THEN FaceUp(column[i]) ELSE column[i]]

StockPopped ==
    gameState.stock = SubSeq(pre.stock, 1, Len(pre.stock) - 1)

\* C7 as stated: a successful dealFromStock removes exactly the last pile of
\* the stock and each column i gains exactly one new card on top, face-up,
\* namely card i of the removed pile.
C7_EachColumnGainsOne ==
    Accepted("dealFromStock") =>
        /\ StockPopped
        /\ \A c \in 1..10 : gameState.columns[c] = DealtOnto(pre, c)

\* C7 amended: a successful dealFromStock removes exactly the last pile of
\* the stock, and each column i gains card i of that pile on top, face-up,
\* unless that card completes a run there: then the column loses the run
\* (the dealt card and the 12 cards under it) and its new top is face-up.
C7_DealThenRuns ==
    Accepted("dealFromStock") =>
        /\ StockPopped
        /\ \A c \in 1..10 :
              gameState.columns[c] =
                 IF CompleteRunAtTop(DealtOnto(pre, c))
                 THEN WithoutRun(DealtOnto(pre, c))
                 ELSE DealtOnto(pre, c)

\* a deal put the ace on K..2 in some column and the run went away, while
\* the other columns kept their dealt card
C7_Witness ==
    /\ Accepted("dealFromStock")
    /\ \E c \in 1..10 :
          /\ CompleteRunAtTop(DealtOnto(pre, c))
          /\ Len(gameState.columns[c]) = Len(pre.columns[c]) - 12
    /\ \E c \in 1..10 : gameState.columns[c] = DealtOnto(pre, c)

\* ------------------------------------------------------------------ C8

\* C8 as stated: a successful dealFromStock increments the move counter by
\* exactly 1 and returns a state whose score equals the input's score.
C8_DealKeepsScore ==
    Accepted("dealFromStock") =>
        /\ gameState.moves = pre.moves + 1
        /\ gameState.score = pre.score

\* C8 amended: a successful dealFromStock increments the move counter by
\* exactly 1; the score is the input's score plus 100 for each run the dealt
\* cards complete, so it is unchanged when the deal completes no run.
C8_DealCounters ==
    Accepted("dealFromStock") =>
        /\ gameState.moves = pre.moves + 1
        /\ gameState.score = pre.score + 100 * RunsRemoved(pre, gameState)
        /\ RunsRemoved(pre, gameState) =
              Cardinality({c \in 1..10 : CompleteRunAtTop(DealtOnto(pre, c))})

\* a deal completed a run and the score rose by 100
C8_Witness ==
    /\ Accepted("dealFromStock")
    /\ gameState.completedRuns = pre.completedRuns + 1
    /\ gameState.score = pre.score + 100

\* ------------------------------------------------------------------ C9

RunColumnsOf(state) ==
    {c \in 1..Len(state.columns) : checkCompleteRun(state.columns[c]).found}

\* C9: removeCompleteRuns removes, from each column for which
\* checkCompleteRun reports a run, exactly that column's top 13 cards, adds
\* 1 to completedRuns and 100 to score per such column, flips the column's
\* new top card face-up if it is face-down, and leaves every other column,
\* the stock and the move counter unchanged.
C9_RemoveCompleteRuns ==
    pout.fn = "removeCompleteRuns" =>
        LET in == pin.state
            out == pout.val
            hit == RunColumnsOf(in)
        IN  /\ Len(out.columns) = Len(in.columns)
            /\ \A c \in 1..Len(in.columns) :
                  out.columns[c] = IF c \in hit THEN WithoutRun(in.columns[c])
                                   ELSE in.columns[c]
            /\ out.completedRuns = in.completedRuns + Cardinality(hit)
            /\ out.score = in.score + 100 * Cardinality(hit)
            /\ out.stock = in.stock
            /\ out.moves = in.moves
            /\ out.difficulty = in.difficulty

\* two columns held a run at once, one of them on a face-down card that is
\* face up in the result
C9_Witness ==
    /\ pout.fn = "removeCompleteRuns"
    /\ Cardinality(RunColumnsOf(pin.state)) = 2
    /\ \E c \in RunColumnsOf(pin.state) :
          /\ Len(pin.state.columns[c]) = 14
          /\ ~pin.state.columns[c][1].faceUp
          /\ pout.val.columns[c] = <<FaceUp(pin.state.columns[c][1])>>

\* ----------------------------------------------------------------- C10

\* C10: one scan pass is sufficient: in every state returned by createGame,
\* an accepted moveCards or a successful dealFromStock no column holds a
\* complete run at its top, so applying removeCompleteRuns again changes
\* nothing.
C10_NoRunLeft ==
    /\ \A c \in 1..10 :
          /\ ~checkCompleteRun(gameState.columns[c]).found
          /\ ~CompleteRunAtTop(gameState.columns[c])
    /\ removeCompleteRuns(gameState) = gameState

\* a move has just completed a run in a column that keeps cards under it
C10_Witness ==
    /\ Accepted("moveCards")
    /\ \E c \in 1..10 :
          /\ Len(pre.columns[c]) > Len(gameState.columns[c]) + 1
          /\ gameState.columns[c] # <<>>
          /\ gameState.completedRuns = 1

\* ----------------------------------------------------------------- C11

\* C11: checkCompleteRun(column) returns found = true with startIndex =
\* len(column) - 13 iff the column has at least 13 cards and its last 13
\* cards are all face-up, all of one suit, with rank values 13, 12, ..., 1
\* from startIndex to the top; in every other case (any single card of that
\* block changed in suit or rank included) it returns found = false with
\* startIndex = -1.
C11_CheckCompleteRun ==
    pout.fn = "checkCompleteRun" =>
        pout.val = IF CompleteRunAtTop(pin.column)
                   THEN [found |-> TRUE, startIndex |-> Len(pin.column) - 13]
                   ELSE [found |-> FALSE, startIndex |-> -1]

\* a run was found on top of two other cards
C11_Witness ==
    /\ pout.fn = "checkCompleteRun"
    /\ pout.val = [found |-> TRUE, startIndex |-> 2]
    /\ Len(pin.column) = 15

\* a block K..A with one card of another suit in it was refused
C11_WitnessBroken ==
    /\ pout.fn = "checkCompleteRun"
    /\ pout.val = [found |-> FALSE, startIndex |-> -1]
    /\ Len(pin.column) = 13
    /\ \A k \in 1..13 : pin.column[k].faceUp /\ RANK_VALUES[pin.column[k].rank] = 14 - k
    /\ pin.column[6].suit # pin.column[13].suit

\* ----------------------------------------------------------------- C12

AllEmpty(state) ==
    /\ state.stock = <<>>
    /\ \A c \in 1..Len(state.columns) : state.columns[c] = <<>>

\* C12: in every reachable state completedRuns is between 0 and 8, and
\* isGameWon(state) is true iff completedRuns = 8 iff the stock and all 10
\* columns are empty.
C12_WonIffEmpty ==
    /\ gameState.completedRuns \in 0..8
    /\ Len(gameState.columns) = 10
    /\ isGameWon(gameState) <=> gameState.completedRuns = 8
    /\ isGameWon(gameState) <=> AllEmpty(gameState)

\* the eighth run has just been removed by a move: the game is won, nothing
\* is left
C12_Witness ==
    /\ Accepted("moveCards")
    /\ pre.completedRuns = 7
    /\ isGameWon(gameState)
    /\ AllEmpty(gameState)

\* ----------------------------------------------------------------- C13

\* C13: in every reachable state and every column, face-up cards are
\* contiguous from the top: if the card at index i is face-up then every
\* card at an index greater than i in that column is face-up.
C13_FaceUpContiguous ==
    \A c \in 1..Len(gameState.columns) :
        \A i \in 1..Len(gameState.columns[c]) :
            gameState.columns[c][i].faceUp =>
                \A j \in (i + 1)..Len(gameState.columns[c]) :
                    gameState.columns[c][j].faceUp

\* after a deal, a move took the face-up cards off a column and turned up
\* the face-down card under them, which still lies on a face-down card; some
\* column shows several face-up cards on face-down ones
C13_Witness ==
    /\ Accepted("moveCards")
    /\ Len(gameState.stock) < 5
    /\ \E c \in 1..10 :
          LET n == Len(gameState.columns[c])
          IN  /\ n >= 2 /\ n < Len(pre.columns[c])
              /\ ~pre.columns[c][n].faceUp
              /\ gameState.columns[c][n].faceUp
              /\ ~gameState.columns[c][n - 1].faceUp
    /\ \E c \in 1..10 :
          LET col == gameState.columns[c]
          IN  Len(col) >= 3 /\ ~col[1].faceUp /\ col[Len(col) - 1].faceUp

\* ----------------------------------------------------------------- C14

\* column indices tried: one below, the ten columns, one beyond
AnyColIdx == (-1)..10

\* C14: for every value of sourceColIdx, startIndex and targetColIdx,
\* including column indices outside 0..9 and card indices outside the source
\* column, moveCards treats the call as an illegal move and returns the
\* unchanged input state; it never raises an error.
C14_OutOfRangeRejected ==
    \A s \in AnyColIdx, t \in AnyColIdx :
        \A i \in (-1)..(IF s \in ColIdx(gameState)
                         THEN Len(At(gameState.columns, s)) + 1 ELSE 7) :
            (\/ s \notin ColIdx(gameState)
             \/ t \notin ColIdx(gameState)
             \/ i \notin 0..(Len(At(gameState.columns, s)) - 1))
                => moveCardsAnyIndex(gameState, s, i, t) = gameState

\* ----------------------------------------------------------------- C15

\* C15: for every difficulty and every shuffle outcome, createGame returns
\* a state with 10 columns where columns 0-3 hold 6 cards and columns 4-9
\* hold 5 cards, exactly the top card of each column is face-up, the stock
\* is 5 piles of 10 face-down cards taken in pack order after the 54 column
\* cards, and completedRuns = 0, score = 500, moves = 0.
C15_CreateGame ==
    pout.fn = "createGame" =>
        LET state == pout.val
            allCards == shuffle(pack(pin.difficulty), pin.random)
        IN  /\ Len(state.columns) = 10
            /\ \A c \in 1..10 :
                  /\ Len(state.columns[c]) = (IF c <= 4 THEN 6 ELSE 5)
                  /\ \A row \in 1..Len(state.columns[c]) :
                        state.columns[c][row].faceUp <=> row = Len(state.columns[c])
            /\ Len(state.stock) = 5
            /\ \A p \in 1..5 :
                  /\ Len(state.stock[p]) = 10
                  /\ \A i \in 1..10 :
                        /\ ~state.stock[p][i].faceUp
                        /\ state.stock[p][i] = allCards[54 + 10 * (p - 1) + i]
            /\ state.completedRuns = 0
            /\ state.score = 500
            /\ state.moves = 0
            /\ state.difficulty = pin.difficulty

\* a game of four suits dealt from a pack whose last card was drawn from
\* the middle
C15_Witness ==
    /\ pout.fn = "createGame"
    /\ pin.difficulty = 4
    /\ pin.random[103] \in 1..102
    /\ Len(pout.val.stock) = 5
    /\ pout.val.stock[5][10] = pack(4)[pin.random[103] + 1]

\* ----------------------------------------------------------------- C16

ConfiguredSuits(d) ==
    IF d = 1 THEN {"S"} ELSE IF d = 2 THEN {"S", "H"} ELSE {"S", "H", "D", "C"}

\* how many cards of the sequence have that suit and rank
Copies(cards, suit, rank) ==
    Cardinality({k \in 1..Len(cards) : cards[k].suit = suit /\ cards[k].rank = rank})

\* C16: for each difficulty d in {1, 2, 4} the pack built by createGame has
\* exactly 104 cards, uses only the d configured suits, and contains every
\* (suit, rank) pair of those suits exactly floor(8 / d) times (8, 4 and 2
\* copies respectively).
C16_PackComposition ==
    pout.fn = "createGame" =>
        LET cards == CardsIn(pout.val)
            d == pin.difficulty
        IN  /\ Len(cards) = 104
            /\ \A k \in 1..Len(cards) : cards[k].suit \in ConfiguredSuits(d)
            /\ \A suit \in ConfiguredSuits(d) : \A r \in 1..13 :
                  Copies(cards, suit, RANKS[r]) = 8 \div d
            /\ (8 \div d) = (IF d = 1 THEN 8 ELSE IF d = 2 THEN 4 ELSE 2)

\* a game of two suits was dealt: four kings of hearts among 104 cards
C16_Witness ==
    /\ pout.fn = "createGame"
    /\ pin.difficulty = 2
    /\ Copies(CardsIn(pout.val), "H", "K") = 4
    /\ Len(CardsIn(pout.val)) = 104

\* ----------------------------------------------------------------- C17

\* how often x occurs in the sequence
Occurrences(s, x) == Cardinality({k \in 1..Len(s) : s[k] = x})

C18_StockPiles ==
    \A p \in 1..Len(gameState.stock) :
        /\ Len(gameState.stock[p]) \in 1..10
        /\ \A i \in 1..Len(gameState.stock[p]) : ~gameState.stock[p][i].faceUp

\* a deal has taken a pile and piles remain
C18_Witness ==
    /\ Accepted("dealFromStock")
    /\ Len(gameState.stock) = Len(pre.stock) - 1
    /\ Len(gameState.stock) \in 1..3

\* ----------------------------------------------------------------- C19

\* C19: in every reachable state no two cards among the columns and the
\* stock have the same identifier, including duplicate (suit, rank) cards
\* coming from different repeats of the deck.
C19_UniqueIds ==
    LET cards == CardsIn(gameState)
    IN  Cardinality({cards[k].id : k \in 1..Len(cards)}) = Len(cards)

\* after a move, one column holds two cards of the same suit and rank that
\* come from two repeats of the deck
C19_Witness ==
    /\ Accepted("moveCards")
    /\ \E c \in 1..10 :
          \E i, j \in 1..Len(gameState.columns[c]) :
             /\ i < j
             /\ gameState.columns[c][i].suit = gameState.columns[c][j].suit
             /\ gameState.columns[c][i].rank = gameState.columns[c][j].rank
             /\ gameState.columns[c][i].id[1] # gameState.columns[c][j].id[1]

\* ----------------------------------------------------------------- C20

AcceptedMoveArgs(state) ==
    {a \in AllMoveArgs(state) : ~moveCardsReturnsInput(state, a[1], a[2], a[3])}

\* every object of the heap h is in the heap after the call, as it was
ObjectsKept(h, after) ==
    /\ Len(after) >= Len(h)
    /\ SubSeq(after, 1, Len(h)) = h

\* the call left the caller's state (at address s of heap h) as it was, and
\* returned the state the function computes
CallKeepsInput(h, s, call, result) ==
    /\ ObjectsKept(h, call.heap)
    /\ StateAt(call.heap, s) = StateAt(h, s)
    /\ IF result = null THEN call.ret = nullRef
       ELSE call.ret # nullRef /\ StateAt(call.heap, call.ret) = result

\* C20: moveCards, dealFromStock and removeCompleteRuns never mutate their
\* input: after any call the caller's input state has the same columns, the
\* same cards with the same faceUp flags, the same stock and the same
\* counters as before the call, and a card flip is done on a new card value,
\* not on a card shared with the input state.
C20_InputNotMutated ==
    LET input == LoadState(gameState)
        h == input.heap
        s == input.ret
    IN  /\ StateAt(h, s) = gameState
        /\ \A a \in AcceptedMoveArgs(gameState) :
              CallKeepsInput(h, s, moveCardsOnHeap(h, s, a[1], a[2], a[3]),
                             moveCards(gameState, a[1], a[2], a[3]))
        /\ moveCardsOnHeap(h, s, 0, 0, 0) = [heap |-> h, ret |-> s]
        /\ moveCardsOnHeap(h, s, 0, -1, 1) = [heap |-> h, ret |-> s]
        /\ CallKeepsInput(h, s, dealFromStockOnHeap(h, s), dealFromStock(gameState))
        /\ CallKeepsInput(h, s, removeCompleteRunsOnHeap(h, s),
                          removeCompleteRuns(gameState))

\* a move from this state completes a run and turns up the face-down card
\* under it: the returned state holds a new face-up card object, the input
\* still holds the face-down one
C20_Witness ==
    LET input == LoadState(gameState)
        h == input.heap
        s == input.ret
    IN  \E a \in AcceptedMoveArgs(gameState) :
           LET call == moveCardsOnHeap(h, s, a[1], a[2], a[3])
               after == At(call.heap[call.heap[call.ret].columns].items, a[3])
               before == At(h[h[s].columns].items, a[3])
               n == Len(call.heap[after].items)
           IN  /\ call.heap[call.ret].completedRuns = gameState.completedRuns + 1
               /\ n > 0
               /\ call.heap[after].items[n] > Len(h)
               /\ call.heap[call.heap[after].items[n]].faceUp
               /\ ~call.heap[h[before].items[n]].faceUp
               /\ call.heap[h[before].items[n]].id = call.heap[call.heap[after].items[n]].id


\* ------------------------------------------------------- the hint search

\* The application keeps, next to the game, the selected card and the hint
\* line (App.tsx lines 31 and 33).  The game specifications carry both in
\* pout: selectedCard is null or the column and index of a card, hint is null
\* or the line shown, held as its wording and the two column numbers in it.
noHint == [fn |-> "findHint", selectedCard |-> null, hint |-> null]

notHinted == [found |-> FALSE]

\* the loop over target columns of either scan (lines 244-256 and 266-275)
RECURSIVE hintTargets(_, _, _, _, _)
hintTargetsAnyRank(columns, tier, srcCol, cardIdx, tgtCol) ==
    IF tgtCol >= Len(columns) THEN notHinted
    ELSE LET col == At(columns, srcCol)
             tgt == At(columns, tgtCol)
             next == hintTargets(columns, tier, srcCol, cardIdx, tgtCol + 1)
             hit == [found |-> TRUE, srcCol |-> srcCol, cardIdx |-> cardIdx,
                     tgtCol |-> tgtCol, tier |-> tier]
         IN  IF tgtCol = srcCol THEN next
             ELSE IF tier = 1 /\ Len(tgt) = 0 THEN next
             ELSE IF tier = 1
                  THEN IF At(tgt, Len(tgt) - 1).suit = At(col, cardIdx).suit
                       THEN hit ELSE next
                  ELSE IF Len(tgt) > 0 THEN hit ELSE next

hintTargets(columns, tier, srcCol, cardIdx, tgtCol) ==
    IF tgtCol >= Len(columns) THEN notHinted
    ELSE LET col == At(columns, srcCol)
             tgt == At(columns, tgtCol)
             next == hintTargets(columns, tier, srcCol, cardIdx, tgtCol + 1)
             hit == [found |-> TRUE, srcCol |-> srcCol, cardIdx |-> cardIdx,
                     tgtCol |-> tgtCol, tier |-> tier]
         IN  IF tgtCol = srcCol THEN next
             ELSE IF tier = 1 /\ Len(tgt) = 0 THEN next
             ELSE IF ~canMoveCards(col, cardIdx, tgt) THEN next
             ELSE IF tier = 1
                  THEN IF At(tgt, Len(tgt) - 1).suit = At(col, cardIdx).suit
                       THEN hit ELSE next
                  ELSE IF Len(tgt) > 0 THEN hit ELSE next

\* the loop over the cards of one source column (lines 240-257, 262-276)
RECURSIVE hintCards(_, _, _, _)
hintCards(columns, tier, srcCol, cardIdx) ==
    LET col == At(columns, srcCol)
        next == hintCards(columns, tier, srcCol, cardIdx + 1)
    IN  IF cardIdx >= Len(col) THEN notHinted
        ELSE IF ~At(col, cardIdx).faceUp THEN next
        ELSE IF ~isValidSequence(col, cardIdx) THEN next
        ELSE LET hit == hintTargets(columns, tier, srcCol, cardIdx, 0)
             IN  IF hit.found THEN hit ELSE next

\* the loop over source columns (lines 238 and 261)
RECURSIVE hintColumns(_, _, _)
hintColumns(columns, tier, srcCol) ==
    IF srcCol >= Len(columns) THEN notHinted
    ELSE LET hit == hintCards(columns, tier, srcCol, 0)
         IN  IF hit.found THEN hit ELSE hintColumns(columns, tier, srcCol + 1)

hintOfOntoSource(hit) ==
    [fn |-> "findHint",
     selectedCard |-> [colIdx |-> hit.srcCol, cardIdx |-> hit.cardIdx],
     hint |-> [text |-> IF hit.tier = 1 THEN "Move from column to column (same suit!)"
                        ELSE "Try moving from column to column",
               from |-> hit.srcCol + 1, to |-> hit.srcCol + 1]]

\* what a scan that found a move leaves in selectedCard and hint (lines
\* 250-251 and 270-271)
hintOf(hit) ==
    [fn |-> "findHint",
     selectedCard |-> [colIdx |-> hit.srcCol, cardIdx |-> hit.cardIdx],
     hint |-> [text |-> IF hit.tier = 1 THEN "Move from column to column (same suit!)"
                        ELSE "Try moving from column to column",
               from |-> hit.srcCol + 1, to |-> hit.tgtCol + 1]]

\* findHint, lines 233-284: what it leaves in selectedCard and hint
findHintAnySuitFirst(state) ==
    LET sameSuit == hintColumns(state.columns, 1, 0)
        anySuit == hintColumns(state.columns, 2, 0)
    IN  IF anySuit.found THEN hintOf(anySuit)
        ELSE IF sameSuit.found THEN hintOf(sameSuit)
        ELSE IF Len(state.stock) > 0
             THEN [noHint EXCEPT !.hint =
                      [text |-> "No useful moves found. Try dealing from stock!"]]
             ELSE [noHint EXCEPT !.hint = [text |-> "No moves available!"]]

findHint(state) ==
    LET sameSuit == hintColumns(state.columns, 1, 0)
        anySuit == hintColumns(state.columns, 2, 0)
    IN  IF sameSuit.found THEN hintOf(sameSuit)
        ELSE IF anySuit.found THEN hintOf(anySuit)
        ELSE IF Len(state.stock) > 0
             THEN [noHint EXCEPT !.hint =
                      [text |-> "No useful moves found. Try dealing from stock!"]]
             ELSE [noHint EXCEPT !.hint = [text |-> "No moves available!"]]

\* ------------------------------------------------ games played with hints

\* calls of moveCards and dealFromStock per game played with hints
MaxHintOps == 6

\* difficulty 2: the hints move the five cards of column 4 to column 0, one
\* by one, and then find a spade queen that a king of hearts, a king of spades
\* and the emptied column would take
randomH ==
    <<1, 0, 2, 4, 5, 3, 1, 0, 8, 2, 8, 3, 4, 12, 1, 0, 11, 2, 3, 4, 11, 12, 1, 0, 1, 2,
      3, 4, 11, 12, 11, 12, 11, 25, 12, 25, 12, 25, 12, 12, 12, 12, 12, 44, 45, 46, 47, 47, 49, 50, 51, 52,
      53, 53, 54, 55, 56, 57, 58, 59, 60, 61, 62, 63, 64, 65, 66, 67, 68, 69, 70, 71, 72, 74, 75, 76, 77, 78,
      79, 80, 81, 82, 83, 84, 85, 86, 87, 88, 89, 90, 91, 92, 93, 94, 95, 96, 97, 98, 99, 100, 101, 102, 103>>

\* the games of SpecHint: the three games of Spec, the game above, and one-suit
\* games from every sequence of draws of RandomChoices
HintGames ==
    Shuffles \cup {<<2, randomH>>} \cup {<<1, random>> : random \in RandomChoices}

\* startNewGame, App.tsx lines 49-57: a new game, no selection, no hint.
\* free is whether the player of this game also makes moves of their own.
InitHint ==
    /\ \E g \in HintGames :
          /\ gameState = createGame(g[1], g[2])
          /\ pin = [fn |-> "startNewGame", free |-> (g \in Shuffles)]
    /\ pre = gameState
    /\ lastCall = [op |-> "createGame", ret |-> "new"]
    /\ pout = noHint

\* the Hint button
FindHint ==
    /\ pout' = findHint(gameState)
    /\ lastCall' = [op |-> "findHint", ret |-> "none"]
    /\ UNCHANGED <<gameState, pre, pin>>

\* a hint that names a move of the state it was computed from is on show
HintedMove ==
    /\ pout.selectedCard # null
    /\ pout.hint # null
    /\ lastCall.op = "findHint"

\* The player follows the hint: with the hinted card selected, a click on the
\* top card of the column the hint names (handleCardClick, lines 170-198).
ApplyHint ==
    /\ HintedMove
    /\ gameState.moves < MaxHintOps
    /\ LET colIdx == pout.hint.to - 1
           column == At(gameState.columns, colIdx)
           cardIdx == Len(column) - 1
           newState == moveCards(gameState, pout.selectedCard.colIdx,
                                 pout.selectedCard.cardIdx, colIdx)
           moved == /\ pout.selectedCard.colIdx # colIdx
                    /\ ~moveCardsReturnsInput(gameState, pout.selectedCard.colIdx,
                                              pout.selectedCard.cardIdx, colIdx)
       IN  /\ Len(column) > 0
           /\ At(column, cardIdx).faceUp
           /\ isValidSequence(column, cardIdx)
           /\ pre' = gameState
           /\ gameState' = IF moved THEN newState ELSE gameState
           /\ lastCall' = [op |-> "moveCards", ret |-> IF moved THEN "new" ELSE "same"]
           /\ pout' = IF moved THEN [pout EXCEPT !.selectedCard = null]
                      ELSE [pout EXCEPT !.selectedCard =
                                           [colIdx |-> colIdx, cardIdx |-> cardIdx],
                                        !.hint = null]
    /\ UNCHANGED pin

\* The player drags cards of their own choice onto a column that takes them:
\* pointer down takes the hint line away (line 162), pointer up calls
\* moveCards and keeps a result that is not the state passed (lines 113-118).
PlayerMove(sourceColIdx, startIndex, targetColIdx) ==
    /\ pin.free
    /\ gameState.moves < MaxHintOps
    /\ ~moveCardsReturnsInput(gameState, sourceColIdx, startIndex, targetColIdx)
    /\ pre' = gameState
    /\ gameState' = moveCards(gameState, sourceColIdx, startIndex, targetColIdx)
    /\ lastCall' = [op |-> "moveCards", ret |-> "new"]
    /\ pout' = [pout EXCEPT !.hint = null]
    /\ UNCHANGED pin

\* the Deal button, handleDeal, lines 210-230
HandleDeal ==
    /\ gameState.moves < MaxHintOps
    /\ pre' = gameState
    /\ IF Len(gameState.stock) = 0
       THEN /\ pout' = [noHint EXCEPT !.hint = [text |-> "No more cards to deal!"]]
            /\ lastCall' = [op |-> "handleDeal", ret |-> "none"]
            /\ UNCHANGED gameState
       ELSE IF \E c \in ColIdx(gameState) : Len(At(gameState.columns, c)) = 0
       THEN /\ pout' = [noHint EXCEPT !.hint =
                           [text |-> "Fill all empty columns before dealing!"]]
            /\ lastCall' = [op |-> "handleDeal", ret |-> "none"]
            /\ UNCHANGED gameState
       ELSE LET result == dealFromStock(gameState)
            IN  /\ pout' = noHint
                /\ gameState' = IF result = null THEN gameState ELSE result
                /\ lastCall' = [op |-> "dealFromStock",
                                ret |-> IF result = null THEN "null" ELSE "new"]
    /\ UNCHANGED pin

NextHint ==
    \/ FindHint
    \/ ApplyHint
    \/ \E sourceColIdx \in ColIdx(gameState), targetColIdx \in ColIdx(gameState) :
         \E startIndex \in 0..(Len(At(gameState.columns, sourceColIdx)) - 1) :
            PlayerMove(sourceColIdx, startIndex, targetColIdx)
    \/ HandleDeal

SpecHint == InitHint /\ [][NextHint]_vars

\* ----------------------------------------------------------------- C21

\* the cards of column from startIndex on are face-up, of one suit, each one
\* rank below the card before it
MovableFrom(column, startIndex) ==
    /\ startIndex >= 0
    /\ startIndex < Len(column)
    /\ \A k \in (startIndex + 1)..Len(column) : column[k].faceUp
    /\ \A k \in (startIndex + 2)..Len(column) :
          /\ column[k].suit = column[k - 1].suit
          /\ RANK_VALUES[column[k - 1].rank] - RANK_VALUES[column[k].rank] = 1

\* the target column is not empty and its face-up top card is one rank
\* above the first card moved
TakenBy(target, card) ==
    /\ Len(target) > 0
    /\ target[Len(target)].faceUp
    /\ RANK_VALUES[target[Len(target)].rank] - RANK_VALUES[card.rank] = 1

\* the legal moves <<source column, card index, target column>> of a state
\* onto a column that is not empty
MovesOntoCards(state) ==
    {m \in AllMoveArgs(state) :
        /\ m[1] # m[3]
        /\ MovableFrom(At(state.columns, m[1]), m[2])
        /\ TakenBy(At(state.columns, m[3]), At(At(state.columns, m[1]), m[2]))}

\* those of them onto a top card of the suit of the cards moved
OntoSameSuit(state, moves) ==
    {m \in moves :
        LET target == At(state.columns, m[3])
        IN  target[Len(target)].suit = At(At(state.columns, m[1]), m[2]).suit}

ComesFirst(m, n) ==
    \/ m[1] < n[1]
    \/ m[1] = n[1] /\ m[2] < n[2]
    \/ m[1] = n[1] /\ m[2] = n[2] /\ m[3] <= n[3]

FirstOf(moves) == CHOOSE m \in moves : \A n \in moves : ComesFirst(m, n)

Suggests(m) ==
    /\ pout.selectedCard = [colIdx |-> m[1], cardIdx |-> m[2]]
    /\ pout.hint # null
    /\ pout.hint.from = m[1] + 1
    /\ pout.hint.to = m[3] + 1

\* C21: the hint search returns the first move, in ascending order of source
\* column, card index and target column, that is legal, has a target that is
\* not empty and lands on a top card of the suit of the cards moved; when
\* there is none, the first legal move in that order onto any column that is
\* not empty; when there is none either, it reports to deal from the stock
\* when the stock is not empty and that no moves are available otherwise.
C21_HintIsFirstMove ==
    lastCall.op = "findHint" =>
        LET anySuit == MovesOntoCards(gameState)
            sameSuit == OntoSameSuit(gameState, anySuit)
        IN  IF sameSuit # {} THEN Suggests(FirstOf(sameSuit))
            ELSE IF anySuit # {} THEN Suggests(FirstOf(anySuit))
            ELSE /\ pout.selectedCard = null
                 /\ pout.hint =
                       [text |-> IF Len(gameState.stock) > 0
                                 THEN "No useful moves found. Try dealing from stock!"
                                 ELSE "No moves available!"]

\* the hint is a move onto a card of the same suit, while a move that comes
\* earlier in the order lands on a card of another suit
C21_Witness ==
    /\ lastCall.op = "findHint"
    /\ LET anySuit == MovesOntoCards(gameState)
           sameSuit == OntoSameSuit(gameState, anySuit)
       IN  /\ sameSuit # {}
           /\ FirstOf(anySuit) # FirstOf(sameSuit)
           /\ Suggests(FirstOf(sameSuit))

\* ----------------------------------------------------------------- C22

\* C22: in every reachable state every move the hint search suggests is
\* accepted by moveCards on that state: source and target differ, the cards
\* moved form a valid sequence, the target is not empty and its face-up top
\* card is one rank higher; no hint has an empty column as its target.
C22_HintIsAccepted ==
    /\ HintedMove =>
          LET sourceColIdx == pout.selectedCard.colIdx
              startIndex == pout.selectedCard.cardIdx
              targetColIdx == pout.hint.to - 1
          IN  /\ sourceColIdx \in ColIdx(gameState)
              /\ targetColIdx \in ColIdx(gameState)
              /\ sourceColIdx # targetColIdx
              /\ pout.hint.from = sourceColIdx + 1
              /\ MovableFrom(At(gameState.columns, sourceColIdx), startIndex)
              /\ TakenBy(At(gameState.columns, targetColIdx),
                         At(At(gameState.columns, sourceColIdx), startIndex))
              /\ moveCards(gameState, sourceColIdx, startIndex, targetColIdx)
                    # gameState
    /\ lastCall.op = "moveCards" => lastCall.ret = "new"

\* a hint for a state with an empty column that takes the cards hinted
C22_Witness ==
    /\ HintedMove
    /\ \E c \in ColIdx(gameState) :
          /\ Len(At(gameState.columns, c)) = 0
          /\ c # pout.selectedCard.colIdx
          /\ c < pout.hint.to - 1

\* ----------------------------------------------------------------- C23

\* The loop of the end-to-end scenario: ask for a hint and apply the move it
\* suggests until a run completes or the hint suggests no move.  seen holds
\* the columns of the states passed; findHint reads nothing but the columns
\* and the stock and a move leaves the stock alone, so that a loop that comes
\* back to columns it has seen goes on forever.  period is the number of
\* moves it took to come back.
RECURSIVE HintLoop(_, _)
HintLoop(state, seen) ==
    LET shown == findHint(state)
        next == moveCards(state, shown.selectedCard.colIdx,
                          shown.selectedCard.cardIdx, shown.hint.to - 1)
        passed == Append(seen, state.columns)
    IN  IF shown.selectedCard = null
        THEN [end |-> "no move", steps |-> Len(seen), period |-> 0]
        ELSE IF next.completedRuns > state.completedRuns
        THEN [end |-> "run", steps |-> Len(passed), period |-> 0]
        ELSE IF \E k \in 1..Len(passed) : passed[k] = next.columns
        THEN [end |-> "forever", steps |-> Len(passed),
              period |-> Len(passed) + 1
                           - (CHOOSE k \in 1..Len(passed) : passed[k] = next.columns)]
        ELSE HintLoop(next, passed)

NewOneSuitGame ==
    /\ lastCall.op = "createGame"
    /\ gameState.difficulty = 1

\* C23 as claimed: from any one-suit game that createGame returns, asking for
\* a hint and applying the move it suggests, again and again, comes to a step
\* where a run completes or where the hint suggests no move; the loop does
\* not go on forever.
C23_HintLoopEnds ==
    NewOneSuitGame => HintLoop(gameState, <<>>).end \in {"run", "no move"}

\* C23: from any one-suit game that createGame returns, asking for a hint and
\* applying the move it suggests, again and again, comes to a step where a
\* run completes or where the hint suggests no move, or else to a move that
\* the next hint takes back; from there on the loop goes on forever with
\* these two moves.
C23_HintLoopEndsOrOscillates ==
    NewOneSuitGame =>
        LET loop == HintLoop(gameState, <<>>)
        IN  \/ loop.end \in {"run", "no move"}
            \/ loop.end = "forever" /\ loop.period = 2

\* a new one-suit game whose loop goes on forever, after more than two moves
C23_Witness ==
    /\ NewOneSuitGame
    /\ HintLoop(gameState, <<>>).end = "forever"
    /\ HintLoop(gameState, <<>>).steps > 2


\* ----------------------------------------------------------------- C24

\* The deals that succeeded in the game so far, read off the counters: moves
\* counts the accepted calls of moveCards and of dealFromStock, and the score
\* tells the accepted moves from the runs removed.
DealsMade(state) ==
    state.moves - (500 + 100 * state.completedRuns - state.score)

\* C24: at most 5 calls of dealFromStock succeed in a game, each of them
\* deals exactly 10 cards; after the fifth the stock is empty and every
\* later call of dealFromStock is rejected.
C24_FiveDeals ==
    /\ DealsMade(gameState) \in 0..5
    /\ Accepted("dealFromStock") =>
          /\ DealsMade(gameState) = DealsMade(pre) + 1
          /\ StockCards(gameState) = StockCards(pre) - 10
          /\ ColumnCards(gameState)
                + 13 * (gameState.completedRuns - pre.completedRuns)
                = ColumnCards(pre) + 10
    /\ DealsMade(gameState) = 5 =>
          /\ StockCards(gameState) = 0
          /\ Len(gameState.stock) = 0
          /\ dealFromStock(gameState) = null
    /\ lastCall.op = "dealFromStock" /\ DealsMade(pre) = 5 => lastCall.ret = "null"

\* a deal was asked for after the fifth, on columns none of which is empty
C24_Witness ==
    /\ lastCall = [op |-> "dealFromStock", ret |-> "null"]
    /\ DealsMade(pre) = 5
    /\ ~(\E c \in ColIdx(gameState) : Len(At(gameState.columns, c)) = 0)

\* ----------------------------------------------------------------- C25

\* the column with its top card face up
TopFaceUp(column) ==
    [i \in 1..Len(column) |-> IF i = Len(column) THEN FaceUp(column[i]) ELSE column[i]]

\* the target column of a move with the cards moved on top
Joined(state, a) ==
    At(state.columns, a[3]) \o SliceFrom(At(state.columns, a[1]), a[2])

\* what an accepted move leaves alone, and its source column
MoveFrame(state, a, result) ==
    /\ result.stock = state.stock
    /\ result.difficulty = state.difficulty
    /\ \A c \in ColIdx(state) \ {a[1], a[3]} :
          At(result.columns, c) = At(state.columns, c)
    /\ At(result.columns, a[1])
          = TopFaceUp(SubSeq(At(state.columns, a[1]), 1, a[2]))

\* C25 as claimed: after an accepted moveCards(state, src, start, tgt) the
\* stock, the difficulty and the eight other columns are as in state, the
\* source column is its first start cards with the new top card face up, and
\* the target column is its old cards followed by the cards moved, in their
\* order, less a completed run if one formed there.
C25_MoveFrameAsClaimed ==
    \A a \in AcceptedMoveArgs(gameState) :
        LET result == moveCards(gameState, a[1], a[2], a[3])
            joined == Joined(gameState, a)
        IN  /\ MoveFrame(gameState, a, result)
            /\ At(result.columns, a[3])
                  = IF CompleteRunAtTop(joined)
                    THEN SubSeq(joined, 1, Len(joined) - 13)
                    ELSE joined

\* C25: the same, and where a completed run left the target column, the new
\* top card of the target column is face up, turned over if it was face down.
C25_MoveFrame ==
    \A a \in AcceptedMoveArgs(gameState) :
        LET result == moveCards(gameState, a[1], a[2], a[3])
            joined == Joined(gameState, a)
        IN  /\ MoveFrame(gameState, a, result)
            /\ At(result.columns, a[3])
                  = IF CompleteRunAtTop(joined)
                    THEN WithoutRun(joined)
                    ELSE joined

\* a move of several cards completes a run on a king that lies on a
\* face-down card
C25_Witness ==
    \E a \in AcceptedMoveArgs(gameState) :
        LET joined == Joined(gameState, a)
        IN  /\ CompleteRunAtTop(joined)
            /\ Len(joined) > 13
            /\ ~joined[Len(joined) - 13].faceUp
            /\ a[2] < Len(At(gameState.columns, a[1])) - 1

\* ----------------------------------------------------------------- C26

\* C26: an accepted moveCards adds 0 or exactly 1 to completedRuns; a run
\* that is removed is removed from the target column; the source column and
\* the other columns never complete a run by a move.
C26_OneRunOnTarget ==
    \A a \in AcceptedMoveArgs(gameState) :
        LET result == moveCards(gameState, a[1], a[2], a[3])
            runs == result.completedRuns - gameState.completedRuns
            left == Len(At(gameState.columns, a[1])) - a[2]
        IN  /\ runs \in {0, 1}
            /\ runs = 1 <=> CompleteRunAtTop(Joined(gameState, a))
            /\ Len(At(result.columns, a[3]))
                  = Len(At(gameState.columns, a[3])) + left - 13 * runs
            /\ Len(At(result.columns, a[1])) = a[2]
            /\ ~CompleteRunAtTop(TopFaceUp(SubSeq(At(gameState.columns, a[1]), 1, a[2])))
            /\ \A c \in ColIdx(gameState) \ {a[1], a[3]} :
                  /\ ~CompleteRunAtTop(At(gameState.columns, c))
                  /\ Len(At(result.columns, c)) = Len(At(gameState.columns, c))
            /\ ColumnCards(result) = ColumnCards(gameState) - 13 * runs

\* a move completes a run while the source column keeps 13 cards or more
C26_Witness ==
    \E a \in AcceptedMoveArgs(gameState) :
        /\ CompleteRunAtTop(Joined(gameState, a))
        /\ moveCards(gameState, a[1], a[2], a[3]).completedRuns
              = gameState.completedRuns + 1
        /\ a[2] > 0

\* ----------------------------------------------------------------- C27

\* C27: in every reachable state the top card of every column that is not
\* empty is face up.
C27_TopFaceUp ==
    \A c \in ColIdx(gameState) :
        LET column == At(gameState.columns, c)
        IN  Len(column) > 0 => column[Len(column)].faceUp

\* a move has uncovered a card that lay face down
C27_Witness ==
    /\ Accepted("moveCards")
    /\ \E c \in ColIdx(gameState) :
          LET column == At(gameState.columns, c)
          IN  /\ Len(column) > 0
              /\ Len(column) < Len(At(pre.columns, c))
              /\ ~At(pre.columns, c)[Len(column)].faceUp

\* ----------------------------------------------------------------- C28

\* C28: in every reachable state score = 500 - (moves - D) + 100 *
\* completedRuns, where D, the deals made, is 5 less the piles of the stock.
C28_Score ==
    LET D == 5 - Len(gameState.stock)
    IN  gameState.score
            = 500 - (gameState.moves - D) + 100 * gameState.completedRuns

\* moves, deals and a run have all counted
C28_Witness ==
    /\ gameState.completedRuns > 0
    /\ Len(gameState.stock) < 5
    /\ gameState.moves > 5 - Len(gameState.stock)
    /\ gameState.score # 500

\* ----------------------------------------------------------------- C29

ColumnSet(state) ==
    UNION {{state.columns[c][k] : k \in 1..Len(state.columns[c])} :
              c \in 1..Len(state.columns)}

StockSet(state) ==
    UNION {{state.stock[p][k] : k \in 1..Len(state.stock[p])} :
              p \in 1..Len(state.stock)}

Ids(cards) == {card.id : card \in cards}

Faces(cards) == {<<card.id, card.suit, card.rank>> : card \in cards}

\* the cards are whole runs: of each suit among them, as many of each rank
WholeRuns(cards) ==
    \A card \in cards : \A rank \in DOMAIN RANK_VALUES :
        Cardinality({other \in cards : other.suit = card.suit /\ other.rank = rank})
            = Cardinality({other \in cards : other.suit = card.suit
                                              /\ other.rank = card.rank})

\* C29: by a call of moveCards or dealFromStock no face-up card of a column
\* becomes face down, no card changes its id, suit or rank, a card leaves the
\* game only as one of the 13 cards of a removed run, and a card comes to the
\* columns only from the stock.  pre is the state before the call.
C29_CardsKeepFaceAndPlace ==
    LET before == ColumnSet(pre) \cup StockSet(pre)
        after == ColumnSet(gameState) \cup StockSet(gameState)
        gone == {card \in before : card.id \notin Ids(after)}
    IN  /\ Ids({card \in ColumnSet(pre) : card.faceUp})
              \cap Ids({card \in after : ~card.faceUp}) = {}
        /\ Faces(after) \subseteq Faces(before)
        /\ Cardinality(Ids(after)) = Cardinality(after)
        /\ Cardinality(gone) = 13 * (gameState.completedRuns - pre.completedRuns)
        /\ WholeRuns(gone)
        /\ Ids(ColumnSet(gameState)) \ Ids(ColumnSet(pre)) \subseteq Ids(StockSet(pre))
        /\ Ids(StockSet(gameState)) \subseteq Ids(StockSet(pre))

\* a deal has brought ten cards to the columns and the ace of a run, which
\* left the game with twelve cards that lay there
C29_Witness ==
    /\ Accepted("dealFromStock")
    /\ gameState.completedRuns = pre.completedRuns + 1
    /\ Ids(StockSet(pre)) \cap Ids(ColumnSet(gameState)) # {}
    /\ \E card \in StockSet(pre) :
          card.id \notin Ids(ColumnSet(gameState) \cup StockSet(gameState))

====
